---- MODULE Spec2Model ----
(***************************************************************************)
(* InstantSend engine of the LLMQ subsystem (CInstantSendDb and            *)
(* CInstantSendManager, quorums_instantsend.cpp), with the collaborators   *)
(* it talks to: the signing engine, the ChainLocks handler, the chain, the *)
(* mempool and the peer-to-peer relay.                                     *)
(*                                                                         *)
(* Every handler is a function from a state record to a state record, so   *)
(* that a handler can call another one the way the code does.  The actions *)
(* apply one handler to the current state.                                 *)
(***************************************************************************)
EXTENDS Integers, Sequences, FiniteSets, TLC

VARIABLES
    is_i, is_tx, is_in, is_lcb,              \* CInstantSendDb: the key-value store
    islockCache, txidCache, outpointCache,   \* CInstantSendDb: read-through caches
    pendingInstantSendLocks, hasScheduledProcessPending,
    creatingInstantSendLocks, txToCreatingInstantSendLocks, inputRequestIds,
    votes, recSigs, pendingReconstructed,    \* signing engine
    signRequests,                            \* AsyncSignIfMember calls that reached the engine
    tipHeight, minedAt, mempool,             \* active chain and mempool
    bestChainLock, clNotify,                 \* ChainLocks handler
    relayed, writes, misbehaving,            \* RelayInv calls, store writes, ban scores
    sporkIS, fMasternodeMode, synced,        \* IsNewInstantSendEnabled, -masternode, sync state
    nNetMsgs,                                \* how many inbound messages were drawn so far
    pisl, ncl,                               \* threads inside ProcessInstantSendLock / NotifyChainLock
    rot,                                     \* quorum rotation: one quarter built and read back
    ser,                                     \* a CQuorumSnapshot written to a stream and read back
    memb,                                    \* GetAllQuorumMembers: its cache and its callers
    conn,                                    \* quorum connections: the hashes and the last calls
    life                                     \* the LLMQ components: construction, start, stop

instantSendVars == << is_i, is_tx, is_in, is_lcb, islockCache, txidCache, outpointCache,
           pendingInstantSendLocks, hasScheduledProcessPending,
           creatingInstantSendLocks, txToCreatingInstantSendLocks, inputRequestIds,
           votes, recSigs, pendingReconstructed, signRequests,
           tipHeight, minedAt, mempool, bestChainLock, clNotify,
           relayed, writes, misbehaving, sporkIS, fMasternodeMode, synced,
           nNetMsgs, pisl, ncl >>

\* The state of the LLMQ utilities (llmq/utils.cpp, llmq/snapshot.h) and of the
\* LLMQ components (llmq/quorums_init.cpp).
llmqVars == << rot, ser, memb, conn, life >>

vars == << instantSendVars, llmqVars >>

----------------------------------------------------------------------------
(* Bounds of the model *)

\* Blocks that can be mined on top of the genesis block.
MaxHeight == 2
\* Inbound messages (ISLOCK messages of peers, recovered signatures of the
\* quorums) drawn in one behaviour.
MaxNetMsgs == 2
\* Empty blocks on top of the genesis block when the node starts, in the
\* specification of the aged coins.
BaseHeight == 3

----------------------------------------------------------------------------
(* The universe: transactions, outpoints, islocks *)

\* uint256(): the null hash, also the null txid.
NullHash == 0

\* vin of the transactions, as outpoint numbers: transactions 1 and 2 both
\* spend outpoint 1, so they double-spend each other; transaction 3 spends
\* outpoint 3, an output of transaction 2, so it is a child of 2.
Vin == << <<1, 2>>, <<1>>, <<3>> >>

\* COutPoint::hash of the outpoints: the transaction that created them.
\* Transaction 9 is an old transaction mined in the genesis block.
OutpointHash == << 9, 9, 2 >>

Txids == DOMAIN Vin

\* The transactions that the wallets broadcast, the miners mine and the
\* islocks of the peers name: the two double-spending ones.  The child enters
\* the mempool in SpecNet only.
SpendTxids == {1, 2}
Outpoints == DOMAIN OutpointHash
NodeIds == {1}

\* nInstantSendConfirmationsRequired of the consensus parameters (main net).
nInstantSendConfirmationsRequired == 6

Range(f) == {f[x] : x \in DOMAIN f}

Put(f, k, v) == [x \in (DOMAIN f) \cup {k} |-> IF x = k THEN v ELSE f[x]]

Del(f, k) == [x \in (DOMAIN f) \ {k} |-> f[x]]

EmptyMap == [x \in {} |-> 0]

\* The input lists an islock of the model can carry: those of the transactions.
InputLists == {Vin[t] : t \in SpendTxids}

\* A BLS signature is "rec" when it is the recovered signature of the selected
\* quorum over the sign hash of the islock that carries it, "forged" when it is
\* any other well-formed signature.
Sigs == {"rec", "forged"}

IslockUniverse == [txid : SpendTxids, inputs : InputLists, sig : Sigs]

RECURSIVE InputsCode(_)
InputsCode(inputs) ==
    IF inputs = <<>> THEN 0
    ELSE InputsCode(SubSeq(inputs, 1, Len(inputs) - 1)) * (Cardinality(Outpoints) + 1)
         + inputs[Len(inputs)]

SigCode(sig) == IF sig = "rec" THEN 1 ELSE IF sig = "forged" THEN 2 ELSE 0

\* ::SerializeHash(islock): a collision-free digest of txid, inputs and sig.
SerializeHash(islock) ==
    (islock.txid * 100 + InputsCode(islock.inputs)) * 3 + SigCode(islock.sig)

\* ::SerializeHash(std::make_pair(INPUTLOCK_REQUESTID_PREFIX, outpoint))
InputLockRequestId(o) == 1000 + o

\* CInstantSendLock::GetRequestId
GetRequestId(islock) == 2000 + InputsCode(islock.inputs)

----------------------------------------------------------------------------
(* unordered_lru_cache: insert, get, erase.  The caches hold 10000 entries, *)
(* more than the model has keys, so nothing is ever truncated.              *)

CacheInsert(c, k, v) == Put(c, k, v)

CacheHas(c, k) == k \in DOMAIN c

CacheErase(c, k) == Del(c, k)

----------------------------------------------------------------------------
(* CInstantSendDb.  A CInstantSendLockPtr is <<>> (nullptr) or <<islock>>.  *)

NullPtr == <<>>

\* The state record the handlers work on: one field per variable.
St == [ is_i |-> is_i, is_tx |-> is_tx, is_in |-> is_in, is_lcb |-> is_lcb,
        islockCache |-> islockCache, txidCache |-> txidCache,
        outpointCache |-> outpointCache,
        pendingInstantSendLocks |-> pendingInstantSendLocks,
        hasScheduledProcessPending |-> hasScheduledProcessPending,
        creatingInstantSendLocks |-> creatingInstantSendLocks,
        txToCreatingInstantSendLocks |-> txToCreatingInstantSendLocks,
        inputRequestIds |-> inputRequestIds,
        votes |-> votes, recSigs |-> recSigs,
        pendingReconstructed |-> pendingReconstructed,
        signRequests |-> signRequests,
        tipHeight |-> tipHeight, minedAt |-> minedAt, mempool |-> mempool,
        bestChainLock |-> bestChainLock, clNotify |-> clNotify,
        relayed |-> relayed, writes |-> writes, misbehaving |-> misbehaving,
        sporkIS |-> sporkIS, fMasternodeMode |-> fMasternodeMode, synced |-> synced ]

RECURSIVE PutAll(_, _, _)
PutAll(f, keys, v) ==
    IF keys = <<>> THEN f ELSE PutAll(Put(f, Head(keys), v), Tail(keys), v)

RECURSIVE DelAll(_, _)
DelAll(f, keys) ==
    IF keys = <<>> THEN f ELSE DelAll(Del(f, Head(keys)), Tail(keys))

\* One CDBBatch with the three kinds of keys, then the three caches.
WriteNewInstantSendLock(s, hash, islock) ==
    [s EXCEPT !.is_i = Put(@, hash, islock),
              !.is_tx = Put(@, islock.txid, hash),
              !.is_in = PutAll(@, islock.inputs, hash),
              !.islockCache = CacheInsert(@, hash, <<islock>>),
              !.txidCache = CacheInsert(@, islock.txid, hash),
              !.outpointCache = PutAll(@, islock.inputs, hash),
              !.writes = Put(@, hash, IF hash \in DOMAIN @ THEN @[hash] + 1 ELSE 1)]

\* Result of a read: the value read and the state with the cache filled.
GetInstantSendLockByHash(s, hash) ==
    IF CacheHas(s.islockCache, hash)
    THEN [ret |-> s.islockCache[hash], st |-> s]
    ELSE LET ret == IF hash \in DOMAIN s.is_i THEN <<s.is_i[hash]>> ELSE NullPtr
         IN  [ret |-> ret,
              st |-> [s EXCEPT !.islockCache = CacheInsert(@, hash, ret)]]

GetInstantSendLockByTxid(s, txid) ==
    IF CacheHas(s.txidCache, txid) /\ s.txidCache[txid] = NullHash
    THEN [ret |-> NullPtr, st |-> s]
    ELSE IF CacheHas(s.txidCache, txid)
    THEN GetInstantSendLockByHash(s, s.txidCache[txid])
    ELSE LET found == txid \in DOMAIN s.is_tx
             islockHash == IF found THEN s.is_tx[txid] ELSE NullHash
             s1 == [s EXCEPT !.txidCache = CacheInsert(@, txid, islockHash)]
         IN  IF ~found THEN [ret |-> NullPtr, st |-> s1]
             ELSE GetInstantSendLockByHash(s1, islockHash)

GetInstantSendLockByInput(s, outpoint) ==
    IF CacheHas(s.outpointCache, outpoint) /\ s.outpointCache[outpoint] = NullHash
    THEN [ret |-> NullPtr, st |-> s]
    ELSE IF CacheHas(s.outpointCache, outpoint)
    THEN GetInstantSendLockByHash(s, s.outpointCache[outpoint])
    ELSE LET found == outpoint \in DOMAIN s.is_in
             islockHash == IF found THEN s.is_in[outpoint] ELSE NullHash
             s1 == [s EXCEPT !.outpointCache = CacheInsert(@, outpoint, islockHash)]
         IN  IF ~found THEN [ret |-> NullPtr, st |-> s1]
             ELSE GetInstantSendLockByHash(s1, islockHash)

\* The erasures of RemoveInstantSendLock, with the islock cache left as it is.
EraseInstantSendLockFromDb(r, hash) ==
    IF r.ret = NullPtr THEN r.st
    ELSE [r.st EXCEPT !.is_i = Del(@, hash),
                      !.is_tx = Del(@, r.ret[1].txid),
                      !.is_in = DelAll(@, r.ret[1].inputs),
                      !.txidCache = CacheErase(@, r.ret[1].txid),
                      !.outpointCache = DelAll(@, r.ret[1].inputs)]

\* The erasures of RemoveInstantSendLock; r is the islock to remove, read or
\* given, with the state after the read.
EraseInstantSendLock(r, hash) ==
    IF r.ret = NullPtr THEN r.st
    ELSE [r.st EXCEPT !.is_i = Del(@, hash),
                      !.is_tx = Del(@, r.ret[1].txid),
                      !.is_in = DelAll(@, r.ret[1].inputs),
                      !.islockCache = CacheErase(@, hash),
                      !.txidCache = CacheErase(@, r.ret[1].txid),
                      !.outpointCache = DelAll(@, r.ret[1].inputs)]

\* islockPtr is the islock the caller holds, or nullptr to have it read.
RemoveInstantSendLock(s, hash, islockPtr) ==
    EraseInstantSendLock(
        IF islockPtr = NullPtr THEN GetInstantSendLockByHash(s, hash)
        ELSE [ret |-> islockPtr, st |-> s],
        hash)

WriteLastChainLockBlock(s, hash) == [s EXCEPT !.is_lcb = hash]

GetLastChainLockBlock(s) == s.is_lcb

----------------------------------------------------------------------------
(* Signing engine (CSigningManager), as the InstantSend engine uses it.     *)
(* votes and recSigs map a request id to the one msgHash bound to it.       *)

GetVoteForId(s, id) == IF id \in DOMAIN s.votes THEN s.votes[id] ELSE NullHash

HasVotedOnId(s, id) == id \in DOMAIN s.votes

HasRecoveredSigForId(s, id) == id \in DOMAIN s.recSigs

HasRecoveredSig(s, id, msgHash) ==
    id \in DOMAIN s.recSigs /\ s.recSigs[id] = msgHash

\* A recovered signature exists for the id, for another message.
IsConflicting(s, id, msgHash) ==
    HasRecoveredSigForId(s, id) /\ ~HasRecoveredSig(s, id, msgHash)

\* The local masternode is a member of the selected quorum.  The first vote
\* for an id is kept; a later one for another msgHash is not recorded.
AsyncSignIfMember(s, id, msgHash) ==
    LET s1 == [s EXCEPT !.signRequests = @ \cup {<<id, msgHash>>}]
    IN  IF HasVotedOnId(s1, id) \/ HasRecoveredSigForId(s1, id) THEN s1
        ELSE [s1 EXCEPT !.votes = Put(@, id, msgHash)]

\* Queued for the signing worker, which stores it and tells the listeners.
PushReconstructedRecoveredSig(s, id, msgHash) ==
    [s EXCEPT !.pendingReconstructed = @ \cup {<<id, msgHash>>}]

----------------------------------------------------------------------------
(* Chain, coins, mempool and the ChainLocks handler.  A CBlockIndex is its  *)
(* height; -1 is the null pointer.  minedAt[t] = 0: t is in no block.       *)

NullIndex == 0 - 1

GetBlockHash(pindex) == 100 + pindex

IsMined(s, txid) == txid \in Txids /\ s.minedAt[txid] > 0

\* GetTransaction with the transaction index: mempool first, then the chain.
GetTransaction(s, txid) ==
    IF txid \in s.mempool THEN [found |-> TRUE, hashBlock |-> NullHash]
    ELSE IF IsMined(s, txid)
    THEN [found |-> TRUE, hashBlock |-> GetBlockHash(s.minedAt[txid])]
    ELSE [found |-> FALSE, hashBlock |-> NullHash]

\* mapBlockIndex.at(hashBlock)
BlockIndexOf(hashBlock) == hashBlock - 100

\* CChainLocksHandler::HasChainLock: the block is the best ChainLocked block
\* or one of its ancestors.
HasChainLock(s, nHeight, blockHash) ==
    nHeight <= s.bestChainLock /\ blockHash = GetBlockHash(nHeight)

\* Height of the block that created the coin, or -1 when no block did.
CoinHeight(s, o) ==
    IF OutpointHash[o] \notin Txids THEN 0
    ELSE IF IsMined(s, OutpointHash[o]) THEN s.minedAt[OutpointHash[o]]
    ELSE NullIndex

SeqToSet(q) == {q[i] : i \in DOMAIN q}

\* pcoinsTip->GetCoin(outpoint, coin) && !coin.IsSpent()
HaveUnspentCoin(s, o) ==
    /\ CoinHeight(s, o) /= NullIndex
    /\ ~\E t \in Txids : IsMined(s, t) /\ o \in SeqToSet(Vin[t])

\* mempool.mapNextTx: the mempool transaction that spends the outpoint.
MapNextTx(s, o) == {t \in s.mempool : o \in SeqToSet(Vin[t])}

\* block.vtx of the block at a height, in transaction order.
RECURSIVE SetToSeq(_)
SetToSeq(S) ==
    IF S = {} THEN <<>>
    ELSE LET m == CHOOSE x \in S : \A y \in S : x <= y
         IN  <<m>> \o SetToSeq(S \ {m})

\* The genesis block holds the old transaction 9 alone.
BlockVtx(s, pindex) ==
    IF pindex = 0 THEN <<9>> ELSE SetToSeq({t \in Txids : s.minedAt[t] = pindex})

----------------------------------------------------------------------------
(* CInstantSendManager: queries *)

IsLocked(s, txHash) ==
    IF ~s.sporkIS THEN [ret |-> FALSE, st |-> s]
    ELSE [GetInstantSendLockByTxid(s, txHash) EXCEPT !.ret = (@ /= NullPtr)]

\* The loop over tx.vin from the input at position i on.
RECURSIVE GetConflictingTxFrom(_, _, _)

\* The body of the loop; otherIsLock is the islock read for the input at i.
GetConflictingTxAt(otherIsLock, tx, i) ==
    IF otherIsLock.ret /= NullPtr /\ otherIsLock.ret[1].txid /= tx
    THEN [ret |-> TRUE, retConflictTxHash |-> otherIsLock.ret[1].txid,
          st |-> otherIsLock.st]
    ELSE GetConflictingTxFrom(otherIsLock.st, tx, i + 1)

GetConflictingTxFrom(s, tx, i) ==
    IF i > Len(Vin[tx]) THEN [ret |-> FALSE, retConflictTxHash |-> NullHash, st |-> s]
    ELSE GetConflictingTxAt(GetInstantSendLockByInput(s, Vin[tx][i]), tx, i)

GetConflictingTx(s, tx) ==
    IF ~s.sporkIS THEN [ret |-> FALSE, retConflictTxHash |-> NullHash, st |-> s]
    ELSE GetConflictingTxFrom(s, tx, 1)

IsConflicted(s, tx) == GetConflictingTx(s, tx)

\* The coin test with the age alone, the ChainLock of the mining block ignored.
CheckCanLockCoinAgeOnly(s, outpoint) ==
    /\ OutpointHash[outpoint] \notin s.mempool
    /\ HaveUnspentCoin(s, outpoint)
    /\ s.tipHeight - CoinHeight(s, outpoint) + 1 >= nInstantSendConfirmationsRequired - 1

\* CheckCanLock(const COutPoint&, ...)
CheckCanLockCoin(s, outpoint) ==
    LET nTxAge == s.tipHeight - CoinHeight(s, outpoint) + 1
        nConfirmationsRequired == nInstantSendConfirmationsRequired - 1
    IN  IF OutpointHash[outpoint] \in s.mempool THEN FALSE
        ELSE IF ~HaveUnspentCoin(s, outpoint) THEN FALSE
        ELSE IF /\ nTxAge < nConfirmationsRequired
                /\ ~HasChainLock(s, CoinHeight(s, outpoint),
                                 GetBlockHash(CoinHeight(s, outpoint)))
        THEN FALSE
        ELSE TRUE

\* locked: the result of IsLocked for the parent transaction of the outpoint.
CheckCanLockParent(locked, outpoint) ==
    [ret |-> locked.ret \/ CheckCanLockCoin(locked.st, outpoint), st |-> locked.st]

CheckCanLockOutpoint(s, outpoint) ==
    CheckCanLockParent(IsLocked(s, OutpointHash[outpoint]), outpoint)

\* CheckCanLock(const CTransaction&, ...): the loop from the input at i on.
\* The mempool of the model never fills its memory share, so the auto-lock
\* threshold test at the top passes.
RECURSIVE CheckCanLockFrom(_, _, _)

\* The body of the loop; r is the result of CheckCanLock for the input at i.
CheckCanLockAt(r, tx, i) ==
    IF ~r.ret THEN [ret |-> FALSE, st |-> r.st]
    ELSE CheckCanLockFrom(r.st, tx, i + 1)

CheckCanLockFrom(s, tx, i) ==
    IF i > Len(Vin[tx]) THEN [ret |-> TRUE, st |-> s]
    ELSE CheckCanLockAt(CheckCanLockOutpoint(s, Vin[tx][i]), tx, i)

CheckCanLock(s, tx) == CheckCanLockFrom(s, tx, 1)

----------------------------------------------------------------------------
(* CInstantSendManager: signing path *)

\* The islock TrySignInstantSendLock assembles; its sig is not set yet.
NewIslock(tx) == [txid |-> tx, inputs |-> Vin[tx], sig |-> "null"]

\* Only the first input is looked up.
AllInputsRecoveredFirstInput(s, tx) ==
    HasRecoveredSig(s, InputLockRequestId(Vin[tx][1]), tx)

AllInputsRecovered(s, tx) ==
    \A i \in DOMAIN Vin[tx] : HasRecoveredSig(s, InputLockRequestId(Vin[tx][i]), tx)

TrySignInstantSendLock(s, tx) ==
    LET islock == NewIslock(tx)
        id == GetRequestId(islock)
    IN  IF ~AllInputsRecovered(s, tx) THEN s
        ELSE IF HasRecoveredSigForId(s, id) THEN s
        ELSE IF id \in DOMAIN s.creatingInstantSendLocks THEN s
        ELSE AsyncSignIfMember(
                 [s EXCEPT !.creatingInstantSendLocks = Put(@, id, islock),
                           !.txToCreatingInstantSendLocks =
                               IF tx \in DOMAIN @ THEN @ ELSE Put(@, tx, id)],
                 id, tx)

\* First loop of ProcessTx from the input at i on: "conflict" when a vote or a
\* recovered signature binds an input to another transaction, else the number
\* of inputs this node has already voted on for tx.
RECURSIVE CountVotes(_, _, _)
CountVotes(s, tx, i) ==
    IF i > Len(Vin[tx]) THEN [conflict |-> FALSE, alreadyVotedCount |-> 0]
    ELSE LET id == InputLockRequestId(Vin[tx][i])
             rest == CountVotes(s, tx, i + 1)
         IN  IF HasVotedOnId(s, id) /\ GetVoteForId(s, id) /= tx
             THEN [conflict |-> TRUE, alreadyVotedCount |-> 0]
             ELSE IF IsConflicting(s, id, tx)
             THEN [conflict |-> TRUE, alreadyVotedCount |-> 0]
             ELSE [conflict |-> rest.conflict,
                   alreadyVotedCount |->
                       rest.alreadyVotedCount + (IF HasVotedOnId(s, id) THEN 1 ELSE 0)]

\* Second loop of ProcessTx from the input at i on.
RECURSIVE SignInputs(_, _, _)
SignInputs(s, tx, i) ==
    IF i > Len(Vin[tx]) THEN s
    ELSE LET id == InputLockRequestId(Vin[tx][i])
         IN  SignInputs(
                 AsyncSignIfMember([s EXCEPT !.inputRequestIds = @ \cup {id}], id, tx),
                 tx, i + 1)

\* ProcessTx after its first loop, with the votes left out of account.
ProcessTxSignUnchecked(s, v, tx) ==
    [ret |-> TRUE, st |-> TrySignInstantSendLock(SignInputs(s, tx, 1), tx)]

\* ProcessTx after its first loop, whose result is v.
ProcessTxSign(s, v, tx) ==
    IF v.conflict THEN [ret |-> FALSE, st |-> s]
    ELSE IF v.alreadyVotedCount = Len(Vin[tx]) THEN [ret |-> TRUE, st |-> s]
    ELSE [ret |-> TRUE, st |-> TrySignInstantSendLock(SignInputs(s, tx, 1), tx)]

\* ProcessTx after CheckCanLock, whose result is l.
ProcessTxCanLock(l, tx) ==
    IF ~l.ret THEN [ret |-> FALSE, st |-> l.st]
    ELSE ProcessTxSign(l.st, CountVotes(l.st, tx, 1), tx)

\* ProcessTx after IsConflicted, whose result is c.
ProcessTxConflicted(c, tx) ==
    IF c.ret THEN [ret |-> FALSE, st |-> c.st]
    ELSE ProcessTxCanLock(CheckCanLock(c.st, tx), tx)

ProcessTx(s, tx) ==
    IF ~s.sporkIS \/ ~s.fMasternodeMode \/ ~s.synced THEN [ret |-> TRUE, st |-> s]
    ELSE ProcessTxConflicted(IsConflicted(s, tx), tx)

----------------------------------------------------------------------------
(* CInstantSendManager: mempool follow-up of a lock *)

\* Mempool transactions that spend an output of a transaction of S, and theirs.
RECURSIVE Descendants(_, _)
Descendants(s, S) ==
    LET more == {t \in s.mempool :
                    \E i \in DOMAIN Vin[t] : OutpointHash[Vin[t][i]] \in S}
    IN  IF more \subseteq S THEN S ELSE Descendants(s, S \cup more)

\* The transactions found through mapNextTx taken out without their
\* descendants.
RemoveSingle(s, toDelete) ==
    [s EXCEPT !.mempool = @ \ toDelete]

\* CTxMemPool::removeRecursive for every transaction of toDelete.
RemoveRecursive(s, toDelete) ==
    [s EXCEPT !.mempool = @ \ Descendants(s, toDelete)]

RemoveMempoolConflictsForLock(s, hash, islock) ==
    LET toDelete == {t \in s.mempool :
                        /\ t /= islock.txid
                        /\ \E i \in DOMAIN islock.inputs : t \in MapNextTx(s, islock.inputs[i])}
    IN  RemoveRecursive(s, toDelete)

\* The loop of RetryLockMempoolTxs over the collected transactions.  The
\* "instantsend" log category is off, so CheckCanLock is left to ProcessTx.
RECURSIVE RetryLoop(_, _)

\* The body of the loop after IsConflicted, whose result is conflicted.
RetryConflicted(conflicted, txs) ==
    IF conflicted.ret THEN RetryLoop(conflicted.st, Tail(txs))
    ELSE RetryLoop(ProcessTx(conflicted.st, Head(txs)).st, Tail(txs))

\* The body of the loop after IsLocked, whose result is locked.
RetryLocked(locked, txs) ==
    IF locked.ret THEN RetryLoop(locked.st, Tail(txs))
    ELSE RetryConflicted(IsConflicted(locked.st, Head(txs)), txs)

RetryLoop(s, txs) ==
    IF txs = <<>> THEN s
    ELSE IF Head(txs) \in DOMAIN s.txToCreatingInstantSendLocks
    THEN RetryLoop(s, Tail(txs))
    ELSE RetryLocked(IsLocked(s, Head(txs)), txs)

RetryLockMempoolTxs(s, lockedParentTx) ==
    LET txs == IF lockedParentTx = NullHash THEN s.mempool
               ELSE {t \in s.mempool :
                        \E i \in DOMAIN Vin[t] : OutpointHash[Vin[t][i]] = lockedParentTx}
    IN  RetryLoop(s, SetToSeq(txs))

----------------------------------------------------------------------------
(* CInstantSendManager::ProcessInstantSendLock, in its three parts *)

\* Before cs is taken: TRUE when the transaction of the islock is mined in a
\* ChainLocked block, and the islock is dropped.
IslockTxIsChainLocked(s, islock) ==
    LET g == GetTransaction(s, islock.txid)
    IN  /\ g.found
        /\ g.hashBlock /= NullHash
        /\ HasChainLock(s, BlockIndexOf(g.hashBlock), g.hashBlock)

\* The reads of the stored islocks of the inputs, which only log.
RECURSIVE LogConflictingInputs(_, _)
LogConflictingInputs(s, inputs) ==
    IF inputs = <<>> THEN s
    ELSE LogConflictingInputs(GetInstantSendLockByInput(s, Head(inputs)).st, Tail(inputs))

\* Under cs, without the return for an islock that is there already.
ProcessInstantSendLockWriteAlways(known, hash, islock) ==
    [stored |-> TRUE,
     st |-> WriteNewInstantSendLock(
                LogConflictingInputs(
                    GetInstantSendLockByTxid(known.st, islock.txid).st, islock.inputs),
                hash, islock)]

\* Under cs, with the islock that is there already going on to the relay.
ProcessInstantSendLockRelayKnown(known, hash, islock) ==
    IF known.ret /= NullPtr THEN [stored |-> TRUE, st |-> known.st]
    ELSE [stored |-> TRUE,
          st |-> WriteNewInstantSendLock(
                     LogConflictingInputs(
                         GetInstantSendLockByTxid(known.st, islock.txid).st,
                         islock.inputs),
                     hash, islock)]

\* Under cs, after GetInstantSendLockByHash(hash), whose result is known.
\* stored is FALSE when the islock was there already.
ProcessInstantSendLockWrite(known, hash, islock) ==
    IF known.ret /= NullPtr THEN [stored |-> FALSE, st |-> known.st]
    ELSE [stored |-> TRUE,
          st |-> WriteNewInstantSendLock(
                     LogConflictingInputs(
                         GetInstantSendLockByTxid(known.st, islock.txid).st,
                         islock.inputs),
                     hash, islock)]

\* Under cs.
ProcessInstantSendLockLocked(s, hash, islock) ==
    ProcessInstantSendLockWrite(
        GetInstantSendLockByHash(
            [s EXCEPT !.creatingInstantSendLocks = Del(@, GetRequestId(islock)),
                      !.txToCreatingInstantSendLocks = Del(@, islock.txid)],
            hash),
        hash, islock)

RelayInv(s, hash) ==
    [s EXCEPT !.relayed = Put(@, hash, IF hash \in DOMAIN @ THEN @[hash] + 1 ELSE 1)]

\* After cs is released.  The wallet and the UI are not modelled.
ProcessInstantSendLockRelay(s, hash, islock) ==
    RetryLockMempoolTxs(
        RemoveMempoolConflictsForLock(RelayInv(s, hash), hash, islock),
        islock.txid)

\* r: the result of the block under cs.
ProcessInstantSendLockUnlocked(r, hash, islock) ==
    IF ~r.stored THEN r.st
    ELSE ProcessInstantSendLockRelay(r.st, hash, islock)

ProcessInstantSendLock(s, from, hash, islock) ==
    IF IslockTxIsChainLocked(s, islock) THEN s
    ELSE ProcessInstantSendLockUnlocked(
             ProcessInstantSendLockLocked(s, hash, islock), hash, islock)

----------------------------------------------------------------------------
(* CInstantSendManager: recovered signatures *)

HandleNewInputLockRecoveredSig(s, recoveredSig, txid) ==
    IF ~GetTransaction(s, txid).found THEN s
    ELSE TrySignInstantSendLock(s, txid)

\* HandleNewInstantSendLockRecoveredSig without its test of msgHash.
HandleNewInstantSendLockAnyMsgHash(s, recoveredSig) ==
    IF recoveredSig.id \notin DOMAIN s.creatingInstantSendLocks THEN s
    ELSE LET islock == s.creatingInstantSendLocks[recoveredSig.id]
             s1 == [s EXCEPT !.creatingInstantSendLocks = Del(@, recoveredSig.id),
                             !.txToCreatingInstantSendLocks = Del(@, islock.txid)]
             signed == [islock EXCEPT !.sig = recoveredSig.sig]
         IN  ProcessInstantSendLock(s1, 0 - 1, SerializeHash(signed), signed)

HandleNewInstantSendLockRecoveredSig(s, recoveredSig) ==
    IF recoveredSig.id \notin DOMAIN s.creatingInstantSendLocks THEN s
    ELSE LET islock == s.creatingInstantSendLocks[recoveredSig.id]
             s1 == [s EXCEPT !.creatingInstantSendLocks = Del(@, recoveredSig.id),
                             !.txToCreatingInstantSendLocks = Del(@, islock.txid)]
             signed == [islock EXCEPT !.sig = recoveredSig.sig]
         IN  IF islock.txid /= recoveredSig.msgHash THEN s1
             ELSE ProcessInstantSendLock(s1, 0 - 1, SerializeHash(signed), signed)

HandleNewRecoveredSig(s, recoveredSig) ==
    IF ~s.sporkIS THEN s
    ELSE IF recoveredSig.id \in s.inputRequestIds /\ recoveredSig.msgHash /= NullHash
    THEN HandleNewInputLockRecoveredSig(s, recoveredSig, recoveredSig.msgHash)
    ELSE IF recoveredSig.id \in DOMAIN s.creatingInstantSendLocks
    THEN HandleNewInstantSendLockRecoveredSig(s, recoveredSig)
    ELSE s

----------------------------------------------------------------------------
(* CInstantSendManager::NotifyChainLock *)

RECURSIVE EraseInputRequestIds(_, _)
EraseInputRequestIds(ids, inputs) ==
    IF inputs = <<>> THEN ids
    ELSE EraseInputRequestIds(ids \ {InputLockRequestId(Head(inputs))}, Tail(inputs))

RemoveFinalISLock(s, hash, islockPtr) ==
    LET s1 == RemoveInstantSendLock(s, hash, islockPtr)
    IN  [s1 EXCEPT !.inputRequestIds = EraseInputRequestIds(@, islockPtr[1].inputs)]

\* The loop over block.vtx, under cs.
RECURSIVE RemoveISLocksOfBlock(_, _)

\* The body of the loop; islock is the islock read for the first of vtx.
RemoveISLockOfTx(islock, vtx) ==
    IF islock.ret = NullPtr THEN RemoveISLocksOfBlock(islock.st, Tail(vtx))
    ELSE RemoveISLocksOfBlock(
             RemoveFinalISLock(islock.st, SerializeHash(islock.ret[1]), islock.ret),
             Tail(vtx))

RemoveISLocksOfBlock(s, vtx) ==
    IF vtx = <<>> THEN s
    ELSE RemoveISLockOfTx(GetInstantSendLockByTxid(s, Head(vtx)), vtx)

\* The local lastChainLockBlock is default-constructed; the value that
\* db.GetLastChainLockBlock() returns is not assigned to it.
LocalLastChainLockBlock(s) == NullHash

\* while (pindex && pindex->GetBlockHash() != lastChainLockBlock)
WalkContinues(pindex, lastChainLockBlock) ==
    pindex /= NullIndex /\ GetBlockHash(pindex) /= lastChainLockBlock

\* One turn of the loop: the block at pindex is read and its islocks removed.
NotifyChainLockBlock(s, pindex) == RemoveISLocksOfBlock(s, BlockVtx(s, pindex))

\* pindex->pprev
PPrev(pindex) == pindex - 1

\* The whole loop; ends with the pindex the loop stopped at.
RECURSIVE NotifyChainLockWalk(_, _, _)
NotifyChainLockWalk(s, pindex, lastChainLockBlock) ==
    IF ~WalkContinues(pindex, lastChainLockBlock) THEN [pindex |-> pindex, st |-> s]
    ELSE NotifyChainLockWalk(NotifyChainLockBlock(s, pindex), PPrev(pindex),
                             lastChainLockBlock)

\* After the loop: the watermark is written from the pindex the loop ended at.
NotifyChainLockFinish(s, pindex) ==
    RetryLockMempoolTxs(
        WriteLastChainLockBlock(s, IF pindex /= NullIndex THEN GetBlockHash(pindex)
                                   ELSE NullHash),
        NullHash)

\* w: the pindex and the state the loop ended with.
NotifyChainLockAfterWalk(w) == NotifyChainLockFinish(w.st, w.pindex)

NotifyChainLock(s, pindex) ==
    NotifyChainLockAfterWalk(NotifyChainLockWalk(s, pindex, LocalLastChainLockBlock(s)))

\* CInstantSendManager::SyncTransaction
\* locked: the result of IsLocked(tx.GetHash()).
SyncTransactionLocked(locked, tx) ==
    IF locked.ret THEN RetryLockMempoolTxs(locked.st, tx) ELSE locked.st

SyncTransaction(s, tx) ==
    IF ~s.sporkIS THEN s ELSE SyncTransactionLocked(IsLocked(s, tx), tx)

RECURSIVE SyncTransactions(_, _)
SyncTransactions(s, txs) ==
    IF txs = <<>> THEN s ELSE SyncTransactions(SyncTransaction(s, Head(txs)), Tail(txs))

----------------------------------------------------------------------------
(* CInstantSendManager: inbound ISLOCK messages *)

\* Misbehaving(nodeId, howmuch)
Misbehaving(s, nodeId, howmuch) ==
    [s EXCEPT !.misbehaving = [@ EXCEPT ![nodeId] = @ + howmuch]]

HasDuplicates(q) == \E i, j \in DOMAIN q : i < j /\ q[i] = q[j]

\* The first test of PreVerifyInstantSendLock alone, without the scan for
\* duplicated inputs.
PreVerifyFieldsOnly(islock) ==
    ~(islock.txid = NullHash \/ islock.sig = "null" \/ islock.inputs = <<>>)

\* retBan is TRUE whenever the result is FALSE.
PreVerifyInstantSendLock(islock) ==
    ~(islock.txid = NullHash \/ islock.sig = "null" \/ islock.inputs = <<>>)
    /\ ~HasDuplicates(islock.inputs)

ProcessMessageInstantSendLock(s, from, islock) ==
    LET hash == SerializeHash(islock)
        known == GetInstantSendLockByHash(s, hash)
    IN  IF ~s.sporkIS THEN s
        ELSE IF ~PreVerifyInstantSendLock(islock) THEN Misbehaving(s, from, 100)
        ELSE IF known.ret /= NullPtr THEN known.st
        ELSE IF hash \in DOMAIN known.st.pendingInstantSendLocks THEN known.st
        ELSE [known.st EXCEPT
                 !.pendingInstantSendLocks = Put(@, hash, [from |-> from, islock |-> islock]),
                 !.hasScheduledProcessPending = TRUE]

\* Consensus parameter llmqForInstantSend.
LlmqForInstantSend == 1

\* The active quorums of the InstantSend type: quorumHash and quorumPublicKey.
ActiveQuorums ==
    << [quorumHash |-> 501, quorumPublicKey |-> 601],
       [quorumHash |-> 502, quorumPublicKey |-> 602] >>

\* CSigningManager::SelectQuorumForSigning: the request id picks one of the
\* active quorums; the active set does not change over the modelled heights.
SelectQuorumForSigning(llmqType, height, id) ==
    ActiveQuorums[(id % Len(ActiveQuorums)) + 1]

\* CHashWriter::GetHash: the double SHA-256 of the stream written so far.  The
\* fields have fixed widths, so the stream is the sequence of the fields.
GetHash(stream) == [sha256d |-> stream]

\* The four fields with id and msgHash written in the other order.
BuildSignHashMsgHashFirst(llmqType, quorumHash, id, msgHash) ==
    GetHash(<< llmqType >> \o << quorumHash >> \o << msgHash >> \o << id >>)

\* CLLMQUtils::BuildSignHash
BuildSignHash(llmqType, quorumHash, id, msgHash) ==
    GetHash(<< llmqType >> \o << quorumHash >> \o << id >> \o << msgHash >>)

\* What the quorum members signed when they recovered the signature of an
\* islock: the sign hash of the islock's request id and txid under the quorum
\* selected for that id, with that quorum's key.
QuorumSigned(islock) ==
    [signHash |-> GetHash(<< LlmqForInstantSend,
                             SelectQuorumForSigning(LlmqForInstantSend, 0,
                                                    GetRequestId(islock)).quorumHash,
                             GetRequestId(islock), islock.txid >>),
     pubKey |-> SelectQuorumForSigning(LlmqForInstantSend, 0,
                                       GetRequestId(islock)).quorumPublicKey]

\* The message ProcessPendingInstantSendLocks pushes for one pending islock:
\* batchVerifier.PushMessage(nodeId, hash, signHash, islock.sig, quorumPublicKey)
PushedTo(quorum, nodeId, hash, islock) ==
    [sourceId |-> nodeId, msgId |-> hash,
     msgHash |-> BuildSignHash(LlmqForInstantSend, quorum.quorumHash,
                               GetRequestId(islock), islock.txid),
     sig |-> islock.sig, pubKey |-> quorum.quorumPublicKey]

PushMessage(height, nodeId, hash, islock) ==
    PushedTo(SelectQuorumForSigning(LlmqForInstantSend, height, GetRequestId(islock)),
             nodeId, hash, islock)

\* CBLSBatchVerifier::Verify on one pushed message: the signature of islock
\* verifies when it is the recovered signature ("rec") and the message names
\* the hash and the key the quorum signed with.
BlsVerify(msg, islock) ==
    /\ msg.sig = "rec"
    /\ msg.msgHash = QuorumSigned(islock).signHash
    /\ msg.pubKey = QuorumSigned(islock).pubKey

VerifiesInBatch(height, islock) ==
    BlsVerify(PushMessage(height, 0, SerializeHash(islock), islock), islock)

\* First loop: the islocks whose signature is pushed to the batch verifier.
NeedsVerify(s, islock) == ~HasRecoveredSig(s, GetRequestId(islock), islock.txid)

RECURSIVE MisbehavingAll(_, _, _)
MisbehavingAll(s, nodes, howmuch) ==
    IF nodes = <<>> THEN s
    ELSE MisbehavingAll(Misbehaving(s, Head(nodes), howmuch), Tail(nodes), howmuch)

\* Second loop, after ProcessInstantSendLock: the reconstructed recovered
\* signature of the islock goes to the signing engine when it has none.
PushReconstructed(s, hash, islock, recon) ==
    IF hash \in recon /\ ~HasRecoveredSigForId(s, GetRequestId(islock))
    THEN PushReconstructedRecoveredSig(s, GetRequestId(islock), islock.txid)
    ELSE s

\* The second loop without its test of badMessages.
RECURSIVE ProcessWholeBatch(_, _, _, _, _)
ProcessWholeBatch(s, pend, order, bad, recon) ==
    IF order = <<>> THEN s
    ELSE ProcessWholeBatch(
             PushReconstructed(
                 ProcessInstantSendLock(s, pend[Head(order)].from, Head(order),
                                        pend[Head(order)].islock),
                 Head(order), pend[Head(order)].islock, recon),
             pend, Tail(order), bad, recon)

\* Second loop, over pend in the order of the map.
\* bad: batchVerifier.badMessages; recon: the keys of the local recSigs map.
RECURSIVE ProcessVerified(_, _, _, _, _)
ProcessVerified(s, pend, order, bad, recon) ==
    IF order = <<>> THEN s
    ELSE IF Head(order) \in bad THEN ProcessVerified(s, pend, Tail(order), bad, recon)
    ELSE ProcessVerified(
             PushReconstructed(
                 ProcessInstantSendLock(s, pend[Head(order)].from, Head(order),
                                        pend[Head(order)].islock),
                 Head(order), pend[Head(order)].islock, recon),
             pend, Tail(order), bad, recon)

\* order: the iteration order of the unordered map pend; haveQuorum: whether
\* SelectQuorumForSigning finds a quorum.
ProcessPendingInstantSendLocks(s, order, haveQuorum) ==
    LET pend == s.pendingInstantSendLocks
        s0 == [s EXCEPT !.hasScheduledProcessPending = FALSE,
                        !.pendingInstantSendLocks = EmptyMap]
        pushed == {h \in DOMAIN pend : NeedsVerify(s0, pend[h].islock)}
        recon == {h \in pushed : ~HasRecoveredSigForId(s0, GetRequestId(pend[h].islock))}
        bad == {h \in pushed : ~BlsVerify(PushMessage(s0.tipHeight, pend[h].from, h,
                                                       pend[h].islock),
                                           pend[h].islock)}
        badSources == {pend[h].from : h \in bad}
        s1 == MisbehavingAll(s0, SetToSeq(badSources), 20)
    IN  IF ~s.sporkIS THEN s0
        ELSE IF pushed /= {} /\ ~haveQuorum THEN s0
        ELSE ProcessVerified(s1, pend, order, bad, recon)

----------------------------------------------------------------------------
(* What the peers and the quorums can send *)

\* The requests a quorum signs: the input locks of a transaction and its
\* islock, each with the txid as the message.
SignableRequests ==
    UNION {{<<InputLockRequestId(o), t>> : o \in SeqToSet(Vin[t])}
             \cup {<<GetRequestId(NewIslock(t)), t>>} : t \in SpendTxids}

\* The islocks a peer can send: a forged signature on any islock, the
\* recovered signature only on an islock that a quorum signs.
NetIslocks ==
    {l \in IslockUniverse :
        l.sig = "rec" => <<GetRequestId(l), l.txid>> \in SignableRequests /\ l.inputs = Vin[l.txid]}

\* What a peer can put in an ISLOCK message besides the islocks above: a null
\* txid, a signature that does not decode ("null"), no input, or an input
\* listed twice.
MalformedIslocks ==
    {l \in [txid : SpendTxids \cup {NullHash},
            inputs : InputLists \cup {<<>>, <<1, 1>>},
            sig : Sigs \cup {"null"}] :
        l.txid = NullHash \/ l.sig = "null" \/ l.inputs \in {<<>>, <<1, 1>>}}

WireIslocks == NetIslocks \cup MalformedIslocks

\* The orders in which a set can be iterated.
RECURSIVE Perms(_)
Perms(S) ==
    IF S = {} THEN {<<>>}
    ELSE UNION {{<<x>> \o q : q \in Perms(S \ {x})} : x \in S}

----------------------------------------------------------------------------
(* Initial state *)

IdlePisl == [pc |-> "idle", hash |-> NullHash,
             islock |-> [txid |-> NullHash, inputs |-> <<>>, sig |-> "null"]]

IdleNcl == [pc |-> "idle", pindex |-> NullIndex, target |-> NullIndex,
            returned |-> NullIndex]

\* The InstantSend engine after construction, on a chain of h blocks.
InitAt(h) ==
    /\ is_i = EmptyMap /\ is_tx = EmptyMap /\ is_in = EmptyMap /\ is_lcb = NullHash
    /\ islockCache = EmptyMap /\ txidCache = EmptyMap /\ outpointCache = EmptyMap
    /\ pendingInstantSendLocks = EmptyMap
    /\ hasScheduledProcessPending = FALSE
    /\ creatingInstantSendLocks = EmptyMap
    /\ txToCreatingInstantSendLocks = EmptyMap
    /\ inputRequestIds = {}
    /\ votes = EmptyMap /\ recSigs = EmptyMap /\ pendingReconstructed = {}
    /\ signRequests = {}
    /\ tipHeight = h
    /\ minedAt = [t \in Txids |-> 0]
    /\ mempool = {}
    /\ bestChainLock = NullIndex
    /\ clNotify = NullIndex
    /\ relayed = EmptyMap /\ writes = EmptyMap
    /\ misbehaving = [n \in NodeIds |-> 0]
    /\ sporkIS \in BOOLEAN
    /\ fMasternodeMode \in BOOLEAN
    /\ synced \in BOOLEAN
    /\ nNetMsgs = 0
    /\ pisl = IdlePisl
    /\ ncl = IdleNcl

\* No call of the LLMQ utilities is under way.
Idle == [pc |-> "idle"]

LlmqIdle == rot = Idle /\ ser = Idle /\ memb = Idle /\ conn = Idle /\ life = Idle

Init == InitAt(0) /\ LlmqIdle

\* The next state is the record r.
Apply(r) ==
    /\ is_i' = r.is_i /\ is_tx' = r.is_tx /\ is_in' = r.is_in /\ is_lcb' = r.is_lcb
    /\ islockCache' = r.islockCache /\ txidCache' = r.txidCache
    /\ outpointCache' = r.outpointCache
    /\ pendingInstantSendLocks' = r.pendingInstantSendLocks
    /\ hasScheduledProcessPending' = r.hasScheduledProcessPending
    /\ creatingInstantSendLocks' = r.creatingInstantSendLocks
    /\ txToCreatingInstantSendLocks' = r.txToCreatingInstantSendLocks
    /\ inputRequestIds' = r.inputRequestIds
    /\ votes' = r.votes /\ recSigs' = r.recSigs
    /\ pendingReconstructed' = r.pendingReconstructed
    /\ signRequests' = r.signRequests
    /\ tipHeight' = r.tipHeight /\ minedAt' = r.minedAt /\ mempool' = r.mempool
    /\ bestChainLock' = r.bestChainLock /\ clNotify' = r.clNotify
    /\ relayed' = r.relayed /\ writes' = r.writes /\ misbehaving' = r.misbehaving
    /\ sporkIS' = r.sporkIS /\ fMasternodeMode' = r.fMasternodeMode
    /\ synced' = r.synced
    /\ UNCHANGED llmqVars

----------------------------------------------------------------------------
(* Actions: the chain, the mempool, the ChainLocks handler *)

\* The inputs of tx can be spent on top of the chain plus the transactions of S.
InputsAvailable(s, tx, S) ==
    \A i \in DOMAIN Vin[tx] :
        \/ HaveUnspentCoin(s, Vin[tx][i])
        \/ OutpointHash[Vin[tx][i]] \in S

SpendSameInput(t, u) == SeqToSet(Vin[t]) \cap SeqToSet(Vin[u]) /= {}

\* A transaction enters the mempool: it is not mined, its inputs are unspent
\* and no islock binds one of them to another transaction.
AcceptToMemoryPool(tx) ==
    LET c == GetConflictingTx(St, tx)
    IN  /\ tx \notin mempool /\ ~IsMined(St, tx)
        /\ InputsAvailable(St, tx, mempool)
        /\ \A u \in mempool : ~SpendSameInput(tx, u)
        /\ ~c.ret
        /\ Apply(SyncTransaction([c.st EXCEPT !.mempool = @ \cup {tx}], tx))
        /\ UNCHANGED <<nNetMsgs, pisl, ncl>>

\* A block with the transactions S is connected on top of the chain, which
\* grows up to maxHeight.
ConnectBlock(S, maxHeight) ==
    LET conflicts == {u \in mempool \ S : \E t \in S : SpendSameInput(t, u)}
        s1 == [St EXCEPT !.tipHeight = @ + 1,
                         !.minedAt = [t \in Txids |-> IF t \in S THEN tipHeight + 1 ELSE @[t]],
                         !.mempool = (@ \ S) \ Descendants(St, conflicts)]
    IN  /\ tipHeight < maxHeight
        /\ \A t \in S : ~IsMined(St, t) /\ InputsAvailable(St, t, S)
        /\ \A t, u \in S : t /= u => ~SpendSameInput(t, u)
        /\ Apply(SyncTransactions(s1, SetToSeq(S)))
        /\ UNCHANGED <<nNetMsgs, pisl, ncl>>

MineBlock(S) == ConnectBlock(S, MaxHeight)

\* The ChainLocks handler accepts a ChainLock for the block at height h and
\* queues the NotifyChainLock signal.
ChainLock(h) ==
    /\ bestChainLock < h /\ h <= tipHeight
    /\ clNotify = NullIndex
    /\ Apply([St EXCEPT !.bestChainLock = h, !.clNotify = h])
    /\ UNCHANGED <<nNetMsgs, pisl, ncl>>

----------------------------------------------------------------------------
(* Actions: the handlers of the InstantSend engine, one call each *)

ProcessTxCall(tx) ==
    /\ ~IsMined(St, tx)
    /\ Apply(ProcessTx(St, tx).st)
    /\ UNCHANGED <<nNetMsgs, pisl, ncl>>

\* An ISLOCK message of a peer that is not banned.
ReceiveISLock(from, islock) ==
    /\ nNetMsgs < MaxNetMsgs
    /\ misbehaving[from] < 100
    /\ Apply(ProcessMessageInstantSendLock(St, from, islock))
    /\ nNetMsgs' = nNetMsgs + 1
    /\ UNCHANGED <<pisl, ncl>>

\* The scheduler runs the batch that ProcessMessageInstantSendLock scheduled.
RunProcessPending(order, haveQuorum) ==
    /\ hasScheduledProcessPending
    /\ Apply(ProcessPendingInstantSendLocks(St, order, haveQuorum))
    /\ UNCHANGED <<nNetMsgs, pisl, ncl>>

\* The signing worker has a new recovered signature, from the quorum or
\* reconstructed from an islock: it stores it and calls the listener.  A
\* reconstructed one that is still queued is the same signature, and goes.
RecoveredSig(id, msgHash, reconstructed) ==
    LET s1 == [St EXCEPT !.recSigs = Put(@, id, msgHash),
                         !.pendingReconstructed = @ \ {<<id, msgHash>>}]
        recoveredSig == [id |-> id, msgHash |-> msgHash, sig |-> "rec"]
    IN  /\ ~HasRecoveredSigForId(St, id)
        /\ IF reconstructed THEN <<id, msgHash>> \in pendingReconstructed
           ELSE nNetMsgs < MaxNetMsgs
        /\ Apply(HandleNewRecoveredSig(s1, recoveredSig))
        /\ nNetMsgs' = IF reconstructed THEN nNetMsgs ELSE nNetMsgs + 1
        /\ UNCHANGED <<pisl, ncl>>

\* The NotifyChainLock signal is delivered.
NotifyChainLockCall ==
    /\ clNotify /= NullIndex
    /\ Apply(NotifyChainLock([St EXCEPT !.clNotify = NullIndex], clNotify))
    /\ UNCHANGED <<nNetMsgs, pisl, ncl>>

Next ==
    \/ \E tx \in SpendTxids : AcceptToMemoryPool(tx)
    \/ \E S \in SUBSET SpendTxids : MineBlock(S)
    \/ \E h \in 1..MaxHeight : ChainLock(h)
    \/ \E tx \in SpendTxids : ProcessTxCall(tx)
    \/ \E from \in NodeIds, islock \in NetIslocks : ReceiveISLock(from, islock)
    \/ \E order \in Perms(DOMAIN pendingInstantSendLocks), haveQuorum \in BOOLEAN :
           RunProcessPending(order, haveQuorum)
    \/ \E r \in SignableRequests : RecoveredSig(r[1], r[2], FALSE)
    \/ \E r \in pendingReconstructed : RecoveredSig(r[1], r[2], TRUE)
    \/ NotifyChainLockCall

Spec == Init /\ [][Next]_vars

----------------------------------------------------------------------------
(* The node, its mempool and its peers: transactions with a child, ISLOCK   *)
(* messages of any content, the batch runs they schedule, and the recovered *)
(* signatures of the quorums.                                               *)

NextNet ==
    \/ \E tx \in Txids : AcceptToMemoryPool(tx)
    \/ \E from \in NodeIds, islock \in WireIslocks : ReceiveISLock(from, islock)
    \/ \E order \in Perms(DOMAIN pendingInstantSendLocks), haveQuorum \in BOOLEAN :
           RunProcessPending(order, haveQuorum)
    \/ \E r \in SignableRequests : RecoveredSig(r[1], r[2], FALSE)
    \/ \E r \in pendingReconstructed : RecoveredSig(r[1], r[2], TRUE)

SpecNet == Init /\ [][NextNet]_vars

----------------------------------------------------------------------------
(* The node starts on a chain of BaseHeight empty blocks, so that the coins *)
(* of the genesis block reach the age at which no ChainLock is needed.      *)

InitAged == InitAt(BaseHeight) /\ LlmqIdle

MineBlockAged(S) == ConnectBlock(S, BaseHeight + MaxHeight)

NextAged ==
    \/ \E tx \in SpendTxids : AcceptToMemoryPool(tx)
    \/ \E S \in SUBSET SpendTxids : MineBlockAged(S)
    \/ \E h \in 1..(BaseHeight + MaxHeight) : ChainLock(h)
    \/ \E tx \in SpendTxids : ProcessTxCall(tx)
    \/ \E r \in SignableRequests : RecoveredSig(r[1], r[2], FALSE)
    \/ NotifyChainLockCall

SpecAged == InitAged /\ [][NextAged]_vars

----------------------------------------------------------------------------
(* The same node when the network also knows, for a transaction t, a twin   *)
(* of t: a transaction with the vin of t and other outputs, which this node *)
(* never receives.  The islock of the twin has the request id of the islock *)
(* of t, and the quorum may sign the twin's.                                *)

Twin(t) == 10 + t

TwinRecoveredSig(t) == RecoveredSig(GetRequestId(NewIslock(t)), Twin(t), FALSE)

NextTwin ==
    \/ NextAged
    \/ \E t \in SpendTxids : TwinRecoveredSig(t)

SpecTwin == InitAged /\ [][NextTwin]_vars

\* The islock of the twin of t, with the recovered signature of the quorum.
TwinIslock(t) == [txid |-> Twin(t), inputs |-> Vin[t], sig |-> "rec"]

\* The same, when a peer also sends the islock of the twin and the batch run
\* hands it to ProcessInstantSendLock.
NextTwinNet ==
    \/ NextTwin
    \/ \E from \in NodeIds, t \in SpendTxids : ReceiveISLock(from, TwinIslock(t))
    \/ \E order \in Perms(DOMAIN pendingInstantSendLocks), haveQuorum \in BOOLEAN :
           RunProcessPending(order, haveQuorum)
    \/ \E r \in pendingReconstructed : RecoveredSig(r[1], r[2], TRUE)

SpecTwinNet == InitAged /\ [][NextTwinNet]_vars

----------------------------------------------------------------------------
(* ProcessInstantSendLock and NotifyChainLock on two threads.  cs is taken  *)
(* and released inside one step, so a step under cs is atomic; the steps    *)
(* before and after it interleave with the other thread.                    *)

\* A verified islock reaches ProcessInstantSendLock; the ChainLock test runs.
PislBegin(islock) ==
    /\ pisl.pc = "idle"
    /\ nNetMsgs < MaxNetMsgs
    /\ VerifiesInBatch(St.tipHeight, islock)
    /\ nNetMsgs' = nNetMsgs + 1
    /\ pisl' = IF IslockTxIsChainLocked(St, islock) THEN IdlePisl
               ELSE [pc |-> "cs", hash |-> SerializeHash(islock), islock |-> islock]
    /\ Apply(St)
    /\ UNCHANGED ncl

\* r: the result of the block under cs.
PislAfterLocked(r) ==
    /\ Apply(r.st)
    /\ pisl' = IF r.stored THEN [pisl EXCEPT !.pc = "relay"] ELSE IdlePisl

PislLocked ==
    /\ pisl.pc = "cs"
    /\ PislAfterLocked(ProcessInstantSendLockLocked(St, pisl.hash, pisl.islock))
    /\ UNCHANGED <<nNetMsgs, ncl>>

PislRelay ==
    /\ pisl.pc = "relay"
    /\ Apply(ProcessInstantSendLockRelay(St, pisl.hash, pisl.islock))
    /\ pisl' = IdlePisl
    /\ UNCHANGED <<nNetMsgs, ncl>>

\* NotifyChainLock is entered with the queued block index.
NclBegin ==
    /\ ncl.pc = "idle"
    /\ clNotify /= NullIndex
    /\ ncl' = [ncl EXCEPT !.pc = "walk", !.pindex = clNotify, !.target = clNotify]
    /\ Apply([St EXCEPT !.clNotify = NullIndex])
    /\ UNCHANGED <<nNetMsgs, pisl>>

\* One turn of the loop.
NclBlock ==
    /\ ncl.pc = "walk"
    /\ WalkContinues(ncl.pindex, LocalLastChainLockBlock(St))
    /\ Apply(NotifyChainLockBlock(St, ncl.pindex))
    /\ ncl' = [ncl EXCEPT !.pindex = PPrev(@)]
    /\ UNCHANGED <<nNetMsgs, pisl>>

\* The loop has ended: the watermark is written and NotifyChainLock returns.
NclFinish ==
    /\ ncl.pc = "walk"
    /\ ~WalkContinues(ncl.pindex, LocalLastChainLockBlock(St))
    /\ Apply(NotifyChainLockFinish(St, ncl.pindex))
    /\ ncl' = [ncl EXCEPT !.pc = "idle", !.pindex = NullIndex, !.returned = ncl.target]
    /\ UNCHANGED <<nNetMsgs, pisl>>

NextConc ==
    \/ \E tx \in SpendTxids : AcceptToMemoryPool(tx)
    \/ \E S \in SUBSET SpendTxids : MineBlock(S)
    \/ \E h \in 1..MaxHeight : ChainLock(h)
    \/ \E islock \in NetIslocks : PislBegin(islock)
    \/ PislLocked
    \/ PislRelay
    \/ NclBegin
    \/ NclBlock
    \/ NclFinish

SpecConc == Init /\ [][NextConc]_vars

----------------------------------------------------------------------------
(* Quorum rotation (llmq/utils.cpp): a quarter of a quorum is built with    *)
(* its snapshot and read back from the snapshot.  A masternode is its       *)
(* proTxHash, a positive number; a masternode list is the set of them.      *)

\* Masternodes in the list of the quorum base block.
MaxMns == 4

MnIds == 1..MaxMns

\* The masternode lists of a base block: 1, 3 or all MaxMns masternodes.
MnLists == {1..1, 1..3, MnIds}

\* GetLLMQParams(llmqType).size of the quorum types of the model.
LlmqSizes == {4, 8}

\* A pointer that copy_n read past the end of a vector.
GarbageMn == 0

\* The orders of the masternode scores that a modifier can give, best first.
Modifiers == Perms(MnIds)

\* CDeterministicMNList::ForEachMN(false, ...): every masternode, in the
\* order of the list.
ForEachMN(list) == SetToSeq(list)

\* CDeterministicMNList::CalculateQuorum(maxSize, modifier): the maxSize
\* masternodes of the list with the best scores, best first.
CalculateQuorum(list, maxSize, modifier) ==
    LET sorted == SelectSeq(modifier, LAMBDA m : m \in list)
    IN  SubSeq(sorted, 1, IF maxSize < Len(sorted) THEN maxSize ELSE Len(sorted))

\* sortedCombinedMnsList: the masternodes not used first, then the used ones.
SortedCombinedMns(Mns, MnsUsedAtH, MnsNotUsedAtH, modifier) ==
    CalculateQuorum(MnsNotUsedAtH, Cardinality(Mns), modifier)
        \o CalculateQuorum(MnsUsedAtH, Cardinality(Mns), modifier)

\* The while loops of BuildQuorumSnapshotSkipList.  skipUsed: the used
\* masternodes go to the skip list (mode 1), else the unused ones (mode 2).
\* r holds i, first_entry_index, mnSkipList and quarterMembers; i counts from
\* 0 as in the code.  first_entry_index - i is a size_t stored into an int:
\* the int holds the (negative) difference.
RECURSIVE BuildSkipList(_, _, _, _, _)
BuildSkipList(skipUsed, mnUsedAtH, sortedCombinedMns, quarterSize, r) ==
    IF ~(Len(r.quarterMembers) < quarterSize /\ r.i < Len(sortedCombinedMns)) THEN r
    ELSE IF (sortedCombinedMns[r.i + 1] \in mnUsedAtH) = skipUsed
    THEN BuildSkipList(skipUsed, mnUsedAtH, sortedCombinedMns, quarterSize,
             [r EXCEPT !.i = @ + 1,
                       !.first_entry_index = IF @ = 0 THEN r.i ELSE @,
                       !.mnSkipList = Append(@, IF r.first_entry_index = 0 THEN r.i
                                                ELSE r.first_entry_index - r.i)])
    ELSE BuildSkipList(skipUsed, mnUsedAtH, sortedCombinedMns, quarterSize,
             [r EXCEPT !.i = @ + 1,
                       !.quarterMembers = Append(@, sortedCombinedMns[r.i + 1])])

\* std::copy_n(list.begin(), n, back_inserter): the first n entries; reading
\* past the end of the vector is undefined, and gives a fault or garbage.
CopyN(list, n) ==
    IF n <= Len(list) THEN {[thrown |-> "none", members |-> SubSeq(list, 1, n)]}
    ELSE {[thrown |-> "fault", members |-> <<>>]}
         \cup {[thrown |-> "none", members |-> list \o g] :
                   g \in [1..(n - Len(list)) -> MnIds \cup {GarbageMn}]}

\* "Not enough quorums selected to form the new quarter": mode 3.
BuildSkipListEnd(quorumSnapshot, mode, quarterSize, r) ==
    IF Len(r.quarterMembers) < quarterSize
    THEN [thrown |-> "none", quarterMembers |-> <<>>,
          quorumSnapshot |-> [quorumSnapshot EXCEPT !.mnSkipListMode = 3,
                                                    !.mnSkipList = r.mnSkipList]]
    ELSE [thrown |-> "none", quarterMembers |-> r.quarterMembers,
          quorumSnapshot |-> [quorumSnapshot EXCEPT !.mnSkipListMode = mode,
                                                    !.mnSkipList = r.mnSkipList]]

\* Mode 0: the copy_n of quarterSize entries gave c; a fault ends the call.
BuildNoSkipEnd(quorumSnapshot, quarterSize, c) ==
    IF c.thrown /= "none"
    THEN [thrown |-> c.thrown, quarterMembers |-> <<>>,
          quorumSnapshot |-> [quorumSnapshot EXCEPT !.mnSkipListMode = 0,
                                                    !.mnSkipList = <<>>]]
    ELSE BuildSkipListEnd(quorumSnapshot, 0, quarterSize,
             [i |-> 0, first_entry_index |-> 0, mnSkipList |-> <<>>,
              quarterMembers |-> c.members])

\* The outcomes of CLLMQUtils::BuildQuorumSnapshotSkipList.
BuildQuorumSnapshotSkipList(llmqSize, mnUsedAtH, sortedCombinedMns, quorumSnapshot) ==
    LET quarterSize == llmqSize \div 4
        nMnsUsed == Cardinality({i \in DOMAIN sortedCombinedMns :
                                    sortedCombinedMns[i] \in mnUsedAtH})
        r0 == [i |-> 0, first_entry_index |-> 0,
               mnSkipList |-> quorumSnapshot.mnSkipList, quarterMembers |-> <<>>]
    IN  IF nMnsUsed = 0
        THEN {BuildNoSkipEnd(quorumSnapshot, quarterSize, c) :
                 c \in CopyN(sortedCombinedMns, quarterSize)}
        ELSE IF nMnsUsed < Len(sortedCombinedMns) \div 2
        THEN {BuildSkipListEnd(quorumSnapshot, 1, quarterSize,
                 BuildSkipList(TRUE, mnUsedAtH, sortedCombinedMns, quarterSize, r0))}
        ELSE {BuildSkipListEnd(quorumSnapshot, 2, quarterSize,
                 BuildSkipList(FALSE, mnUsedAtH, sortedCombinedMns, quarterSize, r0))}

\* CQuorumSnapshot quorumSnapshot = {}
EmptySnapshot == [activeQuorumMembers |-> <<>>, mnSkipListMode |-> 0, mnSkipList |-> <<>>]

BuildQuorumSnapshot(llmqSize, mnAtH, mnUsedAtH, sortedCombinedMns, quorumSnapshot) ==
    BuildQuorumSnapshotSkipList(llmqSize, mnUsedAtH, sortedCombinedMns,
        [quorumSnapshot EXCEPT !.activeQuorumMembers =
            [i \in 1..Cardinality(mnAtH) |-> ForEachMN(mnAtH)[i] \in mnUsedAtH]])

\* The loops over snapshot.mnSkipList of the modes 1 and 2, from the entry k
\* on: the proTxHashes named by the list, or the out_of_range that
\* sortedCombinedMnsList.at() throws.  The index is a size_t: a negative one
\* wraps to a number past the end.
RECURSIVE DecodeSkipList(_, _, _, _, _)
DecodeSkipList(sortedCombinedMnsList, mnSkipList, k, first_entry_index, acc) ==
    IF k > Len(mnSkipList) THEN [thrown |-> "none", hashes |-> acc]
    ELSE LET s == mnSkipList[k]
             index == IF first_entry_index = 0 THEN s ELSE first_entry_index + s
         IN  IF index < 0 \/ index >= Len(sortedCombinedMnsList)
             THEN [thrown |-> "out_of_range", hashes |-> acc]
             ELSE DecodeSkipList(sortedCombinedMnsList, mnSkipList, k + 1,
                      IF first_entry_index = 0 THEN s ELSE first_entry_index,
                      acc \cup {sortedCombinedMnsList[index + 1]})

\* stable_partition, erase and copy_n of the modes 1 and 2; keep tells
\* whether the masternodes named by the skip list stay (mode 2) or go (mode 1).
PartitionAndCopy(sortedCombinedMnsList, decoded, keep, quarterSize) ==
    IF decoded.thrown /= "none" THEN {[thrown |-> decoded.thrown, members |-> <<>>]}
    ELSE CopyN(SelectSeq(sortedCombinedMnsList,
                         LAMBDA m : (m \in decoded.hashes) = keep), quarterSize)

\* The outcomes of GetQuorumQuarterMembersBySnapshot.  The second ForEachMN
\* adds the masternodes that are not in MnsUsedAtH to MnsUsedAtH, as the first
\* does for the active ones, so that MnsNotUsedAtH stays empty.
QuarterBySnapshot(quarterSize, sortedCombinedMnsList, snapshot) ==
    IF snapshot.mnSkipListMode = 0 THEN CopyN(sortedCombinedMnsList, quarterSize)
    ELSE IF snapshot.mnSkipListMode = 1
    THEN PartitionAndCopy(sortedCombinedMnsList,
             DecodeSkipList(sortedCombinedMnsList, snapshot.mnSkipList, 1, 0, {}),
             FALSE, quarterSize)
    ELSE IF snapshot.mnSkipListMode = 2
    THEN PartitionAndCopy(sortedCombinedMnsList,
             DecodeSkipList(sortedCombinedMnsList, snapshot.mnSkipList, 1, 0, {}),
             TRUE, quarterSize)
    ELSE {[thrown |-> "none", members |-> <<>>]}

GetQuorumQuarterMembersBySnapshot(llmqSize, Mns, modifier, snapshot) ==
    LET active == {ForEachMN(Mns)[i] : i \in {j \in DOMAIN snapshot.activeQuorumMembers :
                                                  snapshot.activeQuorumMembers[j]}}
        MnsUsedAtH == active \cup (Mns \ active)
        MnsNotUsedAtH == {}
    IN  QuarterBySnapshot(llmqSize \div 4,
            SortedCombinedMns(Mns, MnsUsedAtH, MnsNotUsedAtH, modifier), snapshot)

\* The masternode list of the base block, the masternodes used by the three
\* earlier quarters, the order of the scores and the size of the quorum.
InitRotation ==
    /\ InitAt(0) /\ ~sporkIS /\ ~fMasternodeMode /\ ~synced
    /\ rot \in [pc : {"input"}, Mns : MnLists, mnUsedAtH : SUBSET MnIds,
                modifier : Modifiers, llmqSize : LlmqSizes,
                quorumSnapshot : {EmptySnapshot}, quarterMembers : {<<>>},
                rebuilt : {[thrown |-> "none", members |-> <<>>]}, fn : {"none"}]
    /\ rot.mnUsedAtH \subseteq rot.Mns
    /\ ser = Idle /\ memb = Idle /\ conn = Idle /\ life = Idle

\* The quarter and its snapshot are stored for the block by the call fn.
Built(r, fn, b) ==
    [r EXCEPT !.pc = IF b.thrown = "none" THEN "stored" ELSE b.thrown,
              !.fn = fn, !.quorumSnapshot = b.quorumSnapshot,
              !.quarterMembers = b.quarterMembers]

\* CLLMQUtils::BuildNewQuorumQuarterMembers.  quartersMembers: the members of
\* the quarters of H-C, H-2C and H-3C, which go to MnsUsedAtH.  The ForEachMN
\* that follows adds every other masternode of the list to MnsUsedAtH as well,
\* and nothing to MnsNotUsedAtH.
NewQuorumQuarterMembers(llmqSize, Mns, quartersMembers, modifier) ==
    BuildQuorumSnapshot(llmqSize, Mns, quartersMembers \cup (Mns \ quartersMembers),
        SortedCombinedMns(Mns, quartersMembers \cup (Mns \ quartersMembers), {}, modifier),
        EmptySnapshot)

BuildNewQuorumQuarterMembers ==
    /\ rot.pc = "input"
    /\ \E b \in NewQuorumQuarterMembers(rot.llmqSize, rot.Mns, rot.mnUsedAtH,
                                        rot.modifier) :
           rot' = Built(rot, "BuildNewQuorumQuarterMembers", b)
    /\ UNCHANGED <<instantSendVars, ser, memb, conn, life>>

\* BuildQuorumSnapshot called with the used masternodes and the combined list
\* of the unused ones followed by the used ones.
BuildQuorumSnapshotCall ==
    /\ rot.pc = "input"
    /\ \E b \in BuildQuorumSnapshot(rot.llmqSize, rot.Mns, rot.mnUsedAtH,
                        SortedCombinedMns(rot.Mns, rot.mnUsedAtH,
                                          rot.Mns \ rot.mnUsedAtH, rot.modifier),
                        EmptySnapshot) :
           rot' = Built(rot, "BuildQuorumSnapshot", b)
    /\ UNCHANGED <<instantSendVars, ser, memb, conn, life>>

\* GetAllQuorumMembersByQuarterRotation reads the quarter back from the
\* snapshot stored for the block.
ReadQuarterBySnapshot ==
    /\ rot.pc = "stored"
    /\ \E q \in GetQuorumQuarterMembersBySnapshot(rot.llmqSize, rot.Mns, rot.modifier,
                                                  rot.quorumSnapshot) :
           rot' = [rot EXCEPT !.pc = "read", !.rebuilt = q]
    /\ UNCHANGED <<instantSendVars, ser, memb, conn, life>>

NextRotation ==
    \/ BuildNewQuorumQuarterMembers
    \/ BuildQuorumSnapshotCall
    \/ ReadQuarterBySnapshot

SpecRotation == InitRotation /\ [][NextRotation]_vars

(* GetAllQuorumMembersByQuarterRotation over the first rotated quorums of a *)
(* quorum type: the quorum of cycle c reads the snapshots stored for the    *)
(* cycles c-1, c-2 and c-3 and stores its own.  The quorums before cycle 1  *)
(* were not rotated and have no snapshot.  Every call is for a new base     *)
(* block, so the lookup in mapIndexedQuorumMembers misses.                  *)

MaxCycles == 2

\* The commitments of the type mined before the first rotated quorum: those
\* of the quorums of the type that were built before rotation was enabled,
\* for which no snapshot is stored.
MaxMined == 3

\* The score orders of the base blocks of the model.
CycleModifiers == {<<1, 2, 3, 4>>, <<4, 3, 2, 1>>, <<2, 4, 1, 3>>}

\* assert(!quarter.empty()) after GetQuorumQuarterMembersBySnapshot
AssertNotEmpty(q) ==
    IF q.thrown = "none" /\ q.members = <<>> THEN [thrown |-> "assert", members |-> <<>>]
    ELSE q

\* The outcomes of reading the quarter of cycle c: empty without a snapshot.
QuarterOfCycle(r, c) ==
    IF c < 1 THEN {[thrown |-> "none", members |-> <<>>]}
    ELSE {AssertNotEmpty(q) :
            q \in GetQuorumQuarterMembersBySnapshot(r.llmqSize, r.Mns, r.modifiers[c],
                                                    r.stored[c])}

\* BuildNewQuorumQuarterMembers has stored the snapshot b.quorumSnapshot; the
\* four quarters are concatenated, the oldest first.
Concatenated(r, modifier, qC, q2C, q3C, b) ==
    [r EXCEPT !.cycle = @ + 1,
              !.mined = @ + 1,
              !.stored = Append(@, b.quorumSnapshot),
              !.modifiers = Append(@, modifier),
              !.last = [thrown |-> IF b.thrown /= "none" THEN b.thrown
                                   ELSE IF b.quarterMembers = <<>> THEN "assert"
                                   ELSE "none",
                        quarters |-> <<q3C.members, q2C.members, qC.members,
                                       b.quarterMembers>>,
                        members |-> q3C.members \o q2C.members \o qC.members
                                        \o b.quarterMembers]]

\* qC, q2C, q3C: the outcomes of reading the quarters of H-C, H-2C, H-3C.
RotateWith(r, modifier, qC, q2C, q3C) ==
    IF qC.thrown /= "none" \/ q2C.thrown /= "none" \/ q3C.thrown /= "none"
    THEN {[r EXCEPT !.cycle = @ + 1,
                    !.last = [thrown |-> IF qC.thrown /= "none" THEN qC.thrown
                                         ELSE IF q2C.thrown /= "none" THEN q2C.thrown
                                         ELSE q3C.thrown,
                              quarters |-> <<>>, members |-> <<>>]]}
    ELSE {Concatenated(r, modifier, qC, q2C, q3C, b) :
             b \in NewQuorumQuarterMembers(r.llmqSize, r.Mns,
                       (SeqToSet(qC.members) \cup SeqToSet(q2C.members)
                            \cup SeqToSet(q3C.members)) \cap r.Mns,
                       modifier)}

\* The three quarters are read and the fresh one is built.
RotateQuarters(r, modifier) ==
    UNION {RotateWith(r, modifier, q[1], q[2], q[3]) :
              q \in QuarterOfCycle(r, r.cycle) \X QuarterOfCycle(r, r.cycle - 1)
                       \X QuarterOfCycle(r, r.cycle - 2)}

\* minedCommitments.find(llmqType) and the reads at(0), at(1), at(2) of its
\* vector, which holds nMined commitments: the asserts fail when there is
\* none, vector::at throws when there are fewer than three.
MinedCommitmentsThrow(nMined) ==
    IF nMined = 0 THEN "assert"
    ELSE IF nMined < 3 THEN "out_of_range"
    ELSE "none"

\* The outcomes of the call for the base block of the next cycle.
GetAllQuorumMembersByQuarterRotation(r, modifier) ==
    IF MinedCommitmentsThrow(r.mined) /= "none"
    THEN {[r EXCEPT !.cycle = @ + 1,
                    !.last = [thrown |-> MinedCommitmentsThrow(r.mined),
                              quarters |-> <<>>, members |-> <<>>]]}
    ELSE RotateQuarters(r, modifier)

NotCalled == [thrown |-> "none", quarters |-> <<>>, members |-> <<>>]

InitCycles ==
    /\ InitAt(0) /\ ~sporkIS /\ ~fMasternodeMode /\ ~synced
    /\ rot \in [pc : {"cycles"}, Mns : {MnIds}, llmqSize : LlmqSizes, cycle : {0},
                mined : 0..MaxMined,
                stored : {<<>>}, modifiers : {<<>>}, last : {NotCalled}]
    /\ ser = Idle /\ memb = Idle /\ conn = Idle /\ life = Idle

\* The process ends on a failed assert and on a fault.
GetAllQuorumMembersByQuarterRotationCall(modifier) ==
    /\ rot.cycle < MaxCycles
    /\ rot.last.thrown = "none"
    /\ rot' \in GetAllQuorumMembersByQuarterRotation(rot, modifier)
    /\ UNCHANGED <<instantSendVars, ser, memb, conn, life>>

NextCycles == \E modifier \in CycleModifiers : GetAllQuorumMembersByQuarterRotationCall(modifier)

SpecCycles == InitCycles /\ [][NextCycles]_vars

----------------------------------------------------------------------------
(* CQuorumSnapshot::Serialize and Unserialize (llmq/snapshot.h).  A stream  *)
(* is a sequence of bytes.  A read returns the value and the rest of the    *)
(* stream, or thrown = TRUE for the std::ios_base::failure of the stream.   *)

\* Longest bitset of which every content is drawn.
MaxBits == 9
\* Longest skip list drawn.
MaxSkipLen == 2

\* MAX_SIZE of serialize.h.
MAX_SIZE == 33554432

\* The n low bytes of v in two's complement, low byte first.
RECURSIVE LittleEndian(_, _)
LittleEndian(v, n) ==
    IF n = 0 THEN <<>> ELSE <<v % 256>> \o LittleEndian(v \div 256, n - 1)

RECURSIVE FromLittleEndian(_)
FromLittleEndian(bytes) ==
    IF bytes = <<>> THEN 0 ELSE bytes[1] + 256 * FromLittleEndian(Tail(bytes))

Thrown == [thrown |-> TRUE, val |-> 0, rest |-> <<>>]

\* s.read of n bytes.
ReadBytes(stream, n) ==
    IF Len(stream) < n THEN Thrown
    ELSE [thrown |-> FALSE, val |-> SubSeq(stream, 1, n),
          rest |-> SubSeq(stream, n + 1, Len(stream))]

\* s << obj for an int: ser_writedata32, the two's complement of 32 bits.
WriteInt(v) == LittleEndian(v, 4)

\* The int of four bytes: the high byte carries the sign.
ToInt(bytes) ==
    FromLittleEndian(SubSeq(bytes, 1, 3))
        + 16777216 * (IF bytes[4] >= 128 THEN bytes[4] - 256 ELSE bytes[4])

ReadIntFrom(r) == IF r.thrown THEN Thrown ELSE [r EXCEPT !.val = ToInt(@)]

\* s >> obj for an int.
ReadInt(stream) == ReadIntFrom(ReadBytes(stream, 4))

\* The sizes of the model are below 2^31, so the marker 255 with its eight
\* bytes is never written.
WriteCompactSize(n) ==
    IF n < 253 THEN <<n>>
    ELSE IF n <= 65535 THEN <<253>> \o LittleEndian(n, 2)
    ELSE <<254>> \o LittleEndian(n, 4)

\* The size after its marker byte: it has to be canonical (at least min) and
\* at most MAX_SIZE, which no size of more than four bytes is.
ReadCompactSizeBody(r, min) ==
    IF r.thrown THEN Thrown
    ELSE IF Len(r.val) > 4 \/ (Len(r.val) = 4 /\ r.val[4] > 2) THEN Thrown
    ELSE IF FromLittleEndian(r.val) < min \/ FromLittleEndian(r.val) > MAX_SIZE THEN Thrown
    ELSE [r EXCEPT !.val = FromLittleEndian(@)]

ReadCompactSize(stream) ==
    IF stream = <<>> THEN Thrown
    ELSE IF stream[1] < 253 THEN [thrown |-> FALSE, val |-> stream[1], rest |-> Tail(stream)]
    ELSE IF stream[1] = 253 THEN ReadCompactSizeBody(ReadBytes(Tail(stream), 2), 253)
    ELSE IF stream[1] = 254 THEN ReadCompactSizeBody(ReadBytes(Tail(stream), 4), 65536)
    ELSE ReadCompactSizeBody(ReadBytes(Tail(stream), 8), 0)

Pow2(k) == IF k = 0 THEN 1 ELSE IF k = 1 THEN 2 ELSE IF k = 2 THEN 4 ELSE IF k = 3 THEN 8
           ELSE IF k = 4 THEN 16 ELSE IF k = 5 THEN 32 ELSE IF k = 6 THEN 64 ELSE 128

\* vec[p] << (p % 8), with p counted from 0, for the p below ms.
BitAt(vec, ms, p) == IF p < ms /\ vec[p + 1] THEN Pow2(p % 8) ELSE 0

\* WriteFixedBitSet(s, vec, size): (size + 7) / 8 bytes, bit p of the vector
\* in bit p % 8 of the byte p / 8.
WriteFixedBitSet(vec, size) ==
    LET ms == IF size < Len(vec) THEN size ELSE Len(vec)
    IN  [b \in 1..((size + 7) \div 8) |->
            BitAt(vec, ms, 8 * b - 8) + BitAt(vec, ms, 8 * b - 7)
            + BitAt(vec, ms, 8 * b - 6) + BitAt(vec, ms, 8 * b - 5)
            + BitAt(vec, ms, 8 * b - 4) + BitAt(vec, ms, 8 * b - 3)
            + BitAt(vec, ms, 8 * b - 2) + BitAt(vec, ms, 8 * b - 1)]

\* The bits of the bytes read; a bit set past size is "Out-of-range bits set".
FixedBitSetOf(r, size) ==
    IF r.thrown THEN Thrown
    ELSE IF /\ Len(r.val) * 8 /= size
            /\ r.val[Len(r.val)] >= Pow2(8 - (Len(r.val) * 8 - size))
    THEN Thrown
    ELSE [r EXCEPT !.val = [p \in 1..size |->
                               (r.val[(p - 1) \div 8 + 1] \div Pow2((p - 1) % 8)) % 2 = 1]]

\* ReadFixedBitSet(s, vec, size): vec is resized and overwritten.
ReadFixedBitSet(stream, size) == FixedBitSetOf(ReadBytes(stream, (size + 7) \div 8), size)

RECURSIVE WriteInts(_)
WriteInts(list) == IF list = <<>> THEN <<>> ELSE WriteInt(Head(list)) \o WriteInts(Tail(list))

\* CQuorumSnapshot::Serialize
SerializeSnapshot(snapshot) ==
    WriteInt(snapshot.mnSkipListMode)
        \o WriteCompactSize(Len(snapshot.activeQuorumMembers))
        \o WriteFixedBitSet(snapshot.activeQuorumMembers, Len(snapshot.activeQuorumMembers))
        \o WriteCompactSize(Len(snapshot.mnSkipList))
        \o WriteInts(snapshot.mnSkipList)

\* The loop of Unserialize: cnt ints are read and pushed back on mnSkipList.
RECURSIVE UnserializeSkipList(_, _, _)

UnserializeSkipEntry(obj, cnt, snapshot) ==
    IF obj.thrown THEN [thrown |-> TRUE, snapshot |-> snapshot]
    ELSE UnserializeSkipList(obj.rest, cnt - 1,
             [snapshot EXCEPT !.mnSkipList = Append(@, obj.val)])

UnserializeSkipList(stream, cnt, snapshot) ==
    IF cnt = 0 THEN [thrown |-> FALSE, snapshot |-> snapshot]
    ELSE UnserializeSkipEntry(ReadInt(stream), cnt, snapshot)

UnserializeSkipCount(cnt, snapshot) ==
    IF cnt.thrown THEN [thrown |-> TRUE, snapshot |-> snapshot]
    ELSE UnserializeSkipList(cnt.rest, cnt.val, snapshot)

UnserializeBits(bits, snapshot) ==
    IF bits.thrown THEN [thrown |-> TRUE, snapshot |-> snapshot]
    ELSE UnserializeSkipCount(ReadCompactSize(bits.rest),
             [snapshot EXCEPT !.activeQuorumMembers = bits.val])

UnserializeBitCount(cnt, snapshot) ==
    IF cnt.thrown THEN [thrown |-> TRUE, snapshot |-> snapshot]
    ELSE UnserializeBits(ReadFixedBitSet(cnt.rest, cnt.val), snapshot)

UnserializeMode(mode, snapshot) ==
    IF mode.thrown THEN [thrown |-> TRUE, snapshot |-> snapshot]
    ELSE UnserializeBitCount(ReadCompactSize(mode.rest),
             [snapshot EXCEPT !.mnSkipListMode = mode.val])

\* The snapshot read without its mnSkipListMode, which stays as it was.
UnserializeSnapshotNoBase(stream, snapshot) ==
    UnserializeBitCount(ReadCompactSize(stream), snapshot)

\* CQuorumSnapshot::Unserialize into the object snapshot.
UnserializeSnapshot(stream, snapshot) == UnserializeMode(ReadInt(stream), snapshot)

\* The long bitsets, whose size takes three bytes as a compact size.
LongBitSets == {[i \in 1..n |-> i % k = 0] : n \in {253, 260}, k \in 1..3}

BitSets == UNION {[1..n -> BOOLEAN] : n \in 0..MaxBits} \cup LongBitSets

\* The ints of the skip lists drawn: absolute indices and negative deltas.
SkipEntries == {0 - 2, 0, 300}

SkipLists == UNION {[1..n -> SkipEntries] : n \in 0..MaxSkipLen}

\* A snapshot to write; the object that is read into is default-constructed,
\* as the ones of CQuorumRotationInfo::Unserialize are.
InitSerialize ==
    /\ InitAt(0) /\ ~sporkIS /\ ~fMasternodeMode /\ ~synced
    /\ rot = Idle /\ memb = Idle /\ conn = Idle /\ life = Idle
    /\ ser \in [pc : {"input"},
                snapshot : [activeQuorumMembers : BitSets, mnSkipListMode : 0..3,
                            mnSkipList : SkipLists],
                stream : {<<>>},
                read : {[thrown |-> FALSE, snapshot |-> EmptySnapshot]}]

SerializeCall ==
    /\ ser.pc = "input"
    /\ ser' = [ser EXCEPT !.pc = "written", !.stream = SerializeSnapshot(ser.snapshot)]
    /\ UNCHANGED <<instantSendVars, rot, memb, conn, life>>

UnserializeCall ==
    /\ ser.pc = "written"
    /\ ser' = [ser EXCEPT !.pc = "read",
                          !.read = UnserializeSnapshot(ser.stream, EmptySnapshot)]
    /\ UNCHANGED <<instantSendVars, rot, memb, conn, life>>

NextSerialize == SerializeCall \/ UnserializeCall

SpecSerialize == InitSerialize /\ [][NextSerialize]_vars

(* CQuorumRotationInfo (llmq/snapshot.h): Serialize, Unserialize and the    *)
(* copy constructor.  An optional is the sequence of its value, empty when  *)
(* it has none; a uint256 is its 32 bytes.                                  *)

Uint256(v) == LittleEndian(v, 32)

\* CSimplifiedMNListDiff, reduced to its two block hashes.
EmptyMnListDiff == [baseBlockHash |-> Uint256(0), blockHash |-> Uint256(0)]

SerializeMnListDiff(diff) == diff.baseBlockHash \o diff.blockHash

MnListDiffOf(base, r) ==
    IF base.thrown \/ r.thrown THEN Thrown
    ELSE [r EXCEPT !.val = [baseBlockHash |-> base.val, blockHash |-> r.val]]

MnListDiffAfter(base) == MnListDiffOf(base, ReadBytes(base.rest, 32))

UnserializeMnListDiff(stream) == MnListDiffAfter(ReadBytes(stream, 32))

WriteBool(b) == << IF b THEN 1 ELSE 0 >>

BoolOf(r) == IF r.thrown THEN Thrown ELSE [r EXCEPT !.val = (@[1] /= 0)]

ReadBool(stream) == BoolOf(ReadBytes(stream, 1))

\* The bytes that CQuorumSnapshot::Unserialize took from the stream when it
\* read r into the object before: what it appended to the skip list and what
\* it overwrote, each size in its canonical form.
SnapshotRead(stream, before, r) ==
    IF r.thrown THEN Thrown
    ELSE [thrown |-> FALSE, val |-> r.snapshot,
          rest |-> SubSeq(stream,
                     Len(SerializeSnapshot([r.snapshot EXCEPT !.mnSkipList =
                             SubSeq(@, Len(before.mnSkipList) + 1, Len(@))])) + 1,
                     Len(stream))]

SnapshotFrom(stream, before) ==
    SnapshotRead(stream, before, UnserializeSnapshot(stream, before))

RECURSIVE SerializeSnapshots(_)
SerializeSnapshots(list) ==
    IF list = <<>> THEN <<>>
    ELSE SerializeSnapshot(Head(list)) \o SerializeSnapshots(Tail(list))

RECURSIVE SerializeMnListDiffs(_)
SerializeMnListDiffs(list) ==
    IF list = <<>> THEN <<>>
    ELSE SerializeMnListDiff(Head(list)) \o SerializeMnListDiffs(Tail(list))

RECURSIVE SerializeHashes(_)
SerializeHashes(list) ==
    IF list = <<>> THEN <<>> ELSE Head(list) \o SerializeHashes(Tail(list))

\* CQuorumRotationInfo::Serialize
SerializeInfo(obj) ==
    SerializeSnapshot(obj.quorumSnapshotAtHMinusC)
        \o SerializeSnapshot(obj.quorumSnapshotAtHMinus2C)
        \o SerializeSnapshot(obj.quorumSnapshotAtHMinus3C)
        \o SerializeMnListDiff(obj.mnListDiffTip)
        \o SerializeMnListDiff(obj.mnListDiffH)
        \o SerializeMnListDiff(obj.mnListDiffAtHMinusC)
        \o SerializeMnListDiff(obj.mnListDiffAtHMinus2C)
        \o SerializeMnListDiff(obj.mnListDiffAtHMinus3C)
        \o WriteBool(obj.extraShare)
        \o (IF obj.extraShare /\ obj.quorumSnapshotAtHMinus4C /= <<>>
            THEN SerializeSnapshot(obj.quorumSnapshotAtHMinus4C[1]) ELSE <<>>)
        \o (IF obj.extraShare /\ obj.mnListDiffAtHMinus4C /= <<>>
            THEN SerializeMnListDiff(obj.mnListDiffAtHMinus4C[1]) ELSE <<>>)
        \o WriteCompactSize(Len(obj.lastQuorumHashPerIndex))
        \o SerializeHashes(obj.lastQuorumHashPerIndex)
        \o WriteCompactSize(Len(obj.quorumSnapshotList))
        \o SerializeSnapshots(obj.quorumSnapshotList)
        \o WriteCompactSize(Len(obj.mnListDiffList))
        \o SerializeMnListDiffs(obj.mnListDiffList)

\* The object under Unserialize with the unread rest of the stream.
Reading(stream, obj) == [thrown |-> FALSE, rest |-> stream, obj |-> obj]

\* The field takes the value read, the stream moves on; a failed read throws
\* out of Unserialize.
PutField(cur, field, r) ==
    IF cur.thrown \/ r.thrown THEN [cur EXCEPT !.thrown = TRUE]
    ELSE [cur EXCEPT !.rest = r.rest, !.obj[field] = r.val]

ReadSnapshotField(cur, field) ==
    PutField(cur, field, SnapshotFrom(cur.rest, cur.obj[field]))

ReadMnListDiffField(cur, field) ==
    PutField(cur, field, UnserializeMnListDiff(cur.rest))

ReadBoolField(cur, field) == PutField(cur, field, ReadBool(cur.rest))

\* SerializationOpBase under CSerActionUnserialize.
UnserializeInfoBase(cur) ==
    ReadBoolField(
      ReadMnListDiffField(ReadMnListDiffField(ReadMnListDiffField(
        ReadMnListDiffField(ReadMnListDiffField(
          ReadSnapshotField(ReadSnapshotField(ReadSnapshotField(cur,
              "quorumSnapshotAtHMinusC"), "quorumSnapshotAtHMinus2C"),
              "quorumSnapshotAtHMinus3C"),
          "mnListDiffTip"), "mnListDiffH"),
        "mnListDiffAtHMinusC"), "mnListDiffAtHMinus2C"), "mnListDiffAtHMinus3C"),
      "extraShare")

\* ::Unserialize(s, optional.value()) when extraShare is set and the
\* optional of the object read into has a value; nothing is read otherwise.
PutOptional(cur, field, r) ==
    IF cur.thrown \/ r.thrown THEN [cur EXCEPT !.thrown = TRUE]
    ELSE [cur EXCEPT !.rest = r.rest, !.obj[field] = << r.val >>]

ReadOptionalSnapshot(cur) ==
    IF cur.thrown \/ ~cur.obj.extraShare \/ cur.obj.quorumSnapshotAtHMinus4C = <<>>
    THEN cur
    ELSE PutOptional(cur, "quorumSnapshotAtHMinus4C",
             SnapshotFrom(cur.rest, cur.obj.quorumSnapshotAtHMinus4C[1]))

ReadOptionalMnListDiff(cur) ==
    IF cur.thrown \/ ~cur.obj.extraShare \/ cur.obj.mnListDiffAtHMinus4C = <<>>
    THEN cur
    ELSE PutOptional(cur, "mnListDiffAtHMinus4C", UnserializeMnListDiff(cur.rest))

\* The loops of Unserialize: cnt objects are read and pushed back.
RECURSIVE ReadList(_, _, _, _)

PushBack(cur, field, kind, cnt, r) ==
    IF r.thrown THEN [cur EXCEPT !.thrown = TRUE]
    ELSE ReadList([cur EXCEPT !.rest = r.rest, !.obj[field] = Append(@, r.val)],
                  field, kind, cnt - 1)

ReadList(cur, field, kind, cnt) ==
    IF cur.thrown \/ cnt = 0 THEN cur
    ELSE PushBack(cur, field, kind, cnt,
             IF kind = "uint256" THEN ReadBytes(cur.rest, 32)
             ELSE IF kind = "CQuorumSnapshot" THEN SnapshotFrom(cur.rest, EmptySnapshot)
             ELSE UnserializeMnListDiff(cur.rest))

ReadCounted(cur, field, kind, cnt) ==
    IF cur.thrown \/ cnt.thrown THEN [cur EXCEPT !.thrown = TRUE]
    ELSE ReadList([cur EXCEPT !.rest = cnt.rest], field, kind, cnt.val)

ReadVector(cur, field, kind) == ReadCounted(cur, field, kind, ReadCompactSize(cur.rest))

\* CQuorumRotationInfo::Unserialize into the object obj.
UnserializeInfo(stream, obj) ==
    ReadVector(ReadVector(ReadVector(
        ReadOptionalMnListDiff(ReadOptionalSnapshot(
            UnserializeInfoBase(Reading(stream, obj)))),
        "lastQuorumHashPerIndex", "uint256"),
        "quorumSnapshotList", "CQuorumSnapshot"),
        "mnListDiffList", "CSimplifiedMNListDiff")

\* CQuorumRotationInfo() = default: extraShare has no initializer and holds
\* whatever the memory held.
DefaultInfo(extraShare) ==
    [quorumSnapshotAtHMinusC |-> EmptySnapshot,
     quorumSnapshotAtHMinus2C |-> EmptySnapshot,
     quorumSnapshotAtHMinus3C |-> EmptySnapshot,
     mnListDiffTip |-> EmptyMnListDiff, mnListDiffH |-> EmptyMnListDiff,
     mnListDiffAtHMinusC |-> EmptyMnListDiff,
     mnListDiffAtHMinus2C |-> EmptyMnListDiff,
     mnListDiffAtHMinus3C |-> EmptyMnListDiff,
     extraShare |-> extraShare,
     quorumSnapshotAtHMinus4C |-> <<>>, mnListDiffAtHMinus4C |-> <<>>,
     lastQuorumHashPerIndex |-> <<>>, quorumSnapshotList |-> <<>>,
     mnListDiffList |-> <<>>]

\* CQuorumRotationInfo(const CQuorumRotationInfo& dmn) {}: the body is empty
\* and there is no initializer list, every member is default-initialized.
CopyInfo(dmn, extraShare) == DefaultInfo(extraShare)

\* The snapshots and list diffs that the values drawn are built from.
InfoSnapshots ==
    {EmptySnapshot,
     [activeQuorumMembers |-> <<TRUE, FALSE, TRUE>>, mnSkipListMode |-> 1,
      mnSkipList |-> <<1>>]}

InfoMnListDiffs ==
    {EmptyMnListDiff, [baseBlockHash |-> Uint256(5), blockHash |-> Uint256(6)]}

\* At most one element in each vector and in each optional.
UpToOne(S) == {<<>>} \cup {<<x>> : x \in S}

\* The values built by BuildQuorumRotationInfo: the optionals are set only
\* under extraShare.
RotationInfos ==
    {v \in [quorumSnapshotAtHMinusC : InfoSnapshots,
            quorumSnapshotAtHMinus2C : {EmptySnapshot},
            quorumSnapshotAtHMinus3C : {EmptySnapshot},
            mnListDiffTip : InfoMnListDiffs, mnListDiffH : {EmptyMnListDiff},
            mnListDiffAtHMinusC : {EmptyMnListDiff},
            mnListDiffAtHMinus2C : {EmptyMnListDiff},
            mnListDiffAtHMinus3C : {EmptyMnListDiff},
            extraShare : BOOLEAN,
            quorumSnapshotAtHMinus4C : UpToOne(InfoSnapshots),
            mnListDiffAtHMinus4C : UpToOne({EmptyMnListDiff}),
            lastQuorumHashPerIndex : UpToOne({Uint256(7)}),
            quorumSnapshotList : UpToOne(InfoSnapshots \ {EmptySnapshot}),
            mnListDiffList : UpToOne({EmptyMnListDiff})] :
        ~v.extraShare => v.quorumSnapshotAtHMinus4C = <<>> /\ v.mnListDiffAtHMinus4C = <<>>}

InitInfo ==
    /\ InitAt(0) /\ ~sporkIS /\ ~fMasternodeMode /\ ~synced
    /\ rot = Idle /\ memb = Idle /\ conn = Idle /\ life = Idle
    /\ ser \in [pc : {"info"}, info : RotationInfos, stream : {<<>>},
                read : {Reading(<<>>, DefaultInfo(FALSE))},
                copy : {DefaultInfo(FALSE)}]

InfoSerializeCall ==
    /\ ser.pc = "info"
    /\ ser' = [ser EXCEPT !.pc = "info written", !.stream = SerializeInfo(ser.info)]
    /\ UNCHANGED <<instantSendVars, rot, memb, conn, life>>

\* extraShare: the value the fresh object holds before it is read.
InfoUnserializeCall(extraShare) ==
    /\ ser.pc = "info written"
    /\ ser' = [ser EXCEPT !.pc = "info read",
                          !.read = UnserializeInfo(ser.stream, DefaultInfo(extraShare))]
    /\ UNCHANGED <<instantSendVars, rot, memb, conn, life>>

InfoCopyCall(extraShare) ==
    /\ ser.pc = "info read"
    /\ ser' = [ser EXCEPT !.pc = "info copied", !.copy = CopyInfo(ser.info, extraShare)]
    /\ UNCHANGED <<instantSendVars, rot, memb, conn, life>>

NextInfo ==
    \/ InfoSerializeCall
    \/ \E extraShare \in BOOLEAN : InfoUnserializeCall(extraShare)
    \/ \E extraShare \in BOOLEAN : InfoCopyCall(extraShare)

SpecInfo == InitInfo /\ [][NextInfo]_vars

----------------------------------------------------------------------------
(* Masternode hard-fork signals (evo/mnhftx.cpp): CheckMNHFTx,              *)
(* MNHFTx::Verify, extractSignals and CMNHFManager::ProcessBlock with the   *)
(* signal sets it stores.  A block is its list of transactions, the         *)
(* coinbase first; its hash is the pair of its height and that list.  The   *)
(* median time past of a block is its height.  A signal set is a set of     *)
(* pairs <<version bit, mined height>>.                                     *)

\* Blocks connected on top of the genesis block.
MaxMnhfHeight == 2

VERSIONBITS_NUM_BITS == 29

TRANSACTION_MNHF_SIGNAL == 7

\* MNHFTxPayload::CURRENT_VERSION
MNHF_CURRENT_VERSION == 1

\* The deployments activated by masternode signals, each bit with its
\* nStartTime.
MnhfStartTime == (1 :> 0) @@ (2 :> 2)

\* CChainParams::IsValidMNActivation: the bit is the one of a deployment with
\* useEHF that has started.
IsValidMNActivation(nBit, timePast) ==
    nBit \in DOMAIN MnhfStartTime /\ MnhfStartTime[nBit] <= timePast

\* The block index by quorum hash: "A" is on the active chain and the quorum
\* manager holds its quorum, "B" is on the active chain without a quorum of
\* the type, "F" is on another branch; "U" is no known block.
MnhfBlockIndex ==
    [A |-> [active |-> TRUE, quorum |-> TRUE],
     B |-> [active |-> TRUE, quorum |-> FALSE],
     F |-> [active |-> FALSE, quorum |-> FALSE]]

\* CQuorumManager::GetQuorum: the quorum, or nullptr when none is held.
GetQuorumHeld(quorumHash) ==
    quorumHash \in DOMAIN MnhfBlockIndex /\ MnhfBlockIndex[quorumHash].quorum

MnhfTx(versionBit, quorumHash, sigValid) ==
    [nVersion |-> 3, nType |-> TRANSACTION_MNHF_SIGNAL, parses |-> TRUE,
     payloadVersion |-> MNHF_CURRENT_VERSION, versionBit |-> versionBit,
     quorumHash |-> quorumHash, sigValid |-> sigValid]

Coinbase == [MnhfTx(0, "U", FALSE) EXCEPT !.nVersion = 3, !.nType = 5, !.parses = FALSE]

\* The transactions of the blocks drawn: signals for the bits 1 and 2, one
\* without a quorum, one with a bad signature, one for a bit out of range,
\* one for an unknown and one for a forked quorum block, one of an old
\* payload version, one that does not parse, and a plain transaction.
MnhfTxs ==
    {MnhfTx(1, "A", TRUE), MnhfTx(2, "A", TRUE), MnhfTx(1, "B", TRUE),
     MnhfTx(1, "A", FALSE), MnhfTx(VERSIONBITS_NUM_BITS, "B", TRUE),
     MnhfTx(1, "U", TRUE), MnhfTx(1, "F", TRUE),
     [MnhfTx(1, "A", TRUE) EXCEPT !.payloadVersion = 0],
     [MnhfTx(1, "A", TRUE) EXCEPT !.parses = FALSE],
     [MnhfTx(0, "U", FALSE) EXCEPT !.nVersion = 2, !.nType = 0]}

\* The transactions of the blocks with two transactions after the coinbase.
MnhfPairTxs ==
    {MnhfTx(1, "A", TRUE), MnhfTx(2, "A", TRUE), MnhfTx(1, "B", TRUE),
     [MnhfTx(0, "U", FALSE) EXCEPT !.nVersion = 2, !.nType = 0]}

MnhfBlocks ==
    {<<Coinbase>> \o vtx :
        vtx \in [1..0 -> MnhfTxs] \cup [1..1 -> MnhfTxs] \cup [1..2 -> MnhfPairTxs]}

\* What reading through the null quorum pointer can end in: the process
\* dies, or the bytes read fail or pass the signature check.
NullQuorumOutcomes == {"fault", "bad-mnhf-invalid", "verified"}

TxValid == [fault |-> FALSE, valid |-> TRUE, reason |-> ""]

TxInvalid(reason) == [fault |-> FALSE, valid |-> FALSE, reason |-> reason]

TxFault == [fault |-> TRUE, valid |-> FALSE, reason |-> ""]

\* MNHFTx::Verify; quorum is dereferenced as GetQuorum returned it.
MNHFTxVerify(tx, nullOutcome) ==
    IF tx.versionBit >= VERSIONBITS_NUM_BITS THEN TxInvalid("bad-mnhf-nbit-out-of-bounds")
    ELSE IF ~GetQuorumHeld(tx.quorumHash)
    THEN (IF nullOutcome = "fault" THEN TxFault
          ELSE IF nullOutcome = "verified" THEN TxValid
          ELSE TxInvalid("bad-mnhf-invalid"))
    ELSE IF ~tx.sigValid THEN TxInvalid("bad-mnhf-invalid")
    ELSE TxValid

\* The end of CheckMNHFTx, after Verify.
CheckMNHFTxVerified(tx, timePast, verified) ==
    IF ~verified.valid THEN verified
    ELSE IF ~IsValidMNActivation(tx.versionBit, timePast) THEN TxInvalid("bad-mnhf-non-ehf")
    ELSE TxValid

\* timePast: the median time past of pindexPrev.
CheckMNHFTx(tx, timePast, nullOutcome) ==
    IF tx.nVersion /= 3 \/ tx.nType /= TRANSACTION_MNHF_SIGNAL THEN TxInvalid("bad-mnhf-type")
    ELSE IF ~tx.parses THEN TxInvalid("bad-mnhf-payload")
    ELSE IF tx.payloadVersion = 0 \/ tx.payloadVersion > MNHF_CURRENT_VERSION
    THEN TxInvalid("bad-mnhf-version")
    ELSE IF tx.quorumHash \notin DOMAIN MnhfBlockIndex THEN TxInvalid("bad-mnhf-quorum-hash")
    ELSE IF ~MnhfBlockIndex[tx.quorumHash].active THEN TxInvalid("bad-mnhf-quorum-hash")
    ELSE CheckMNHFTxVerified(tx, timePast, MNHFTxVerify(tx, nullOutcome))

\* The loop of extractSignals from the transaction i on (the coinbase is
\* transaction 1); nHeight is the height of pindex, which is handed to
\* CheckMNHFTx as pindexPrev.
RECURSIVE extractSignalsFrom(_, _, _, _, _)

extractSignalsChecked(vtx, nHeight, nullOutcome, i, new_signals, checked) ==
    IF checked.fault THEN [fault |-> TRUE, ok |-> FALSE, reason |-> "", new_signals |-> new_signals]
    ELSE IF ~checked.valid
    THEN [fault |-> FALSE, ok |-> FALSE, reason |-> checked.reason, new_signals |-> new_signals]
    ELSE IF ~vtx[i].parses
    THEN [fault |-> FALSE, ok |-> FALSE, reason |-> "bad-mnhf-tx-payload",
          new_signals |-> new_signals]
    ELSE IF vtx[i].versionBit \in SeqToSet(new_signals)
    THEN [fault |-> FALSE, ok |-> FALSE, reason |-> "bad-mnhf-duplicates-in-block",
          new_signals |-> new_signals]
    ELSE extractSignalsFrom(vtx, nHeight, nullOutcome, i + 1,
                            Append(new_signals, vtx[i].versionBit))

extractSignalsFrom(vtx, nHeight, nullOutcome, i, new_signals) ==
    IF i > Len(vtx)
    THEN [fault |-> FALSE, ok |-> TRUE, reason |-> "", new_signals |-> new_signals]
    ELSE IF vtx[i].nVersion /= 3 \/ vtx[i].nType /= TRANSACTION_MNHF_SIGNAL
    THEN extractSignalsFrom(vtx, nHeight, nullOutcome, i + 1, new_signals)
    ELSE extractSignalsChecked(vtx, nHeight, nullOutcome, i, new_signals,
                               CheckMNHFTx(vtx[i], nHeight, nullOutcome))

extractSignals(vtx, nHeight, nullOutcome) ==
    extractSignalsFrom(vtx, nHeight, nullOutcome, 2, <<>>)

\* The hash of the block with the transactions vtx at the height nHeight.
MnhfBlockHash(nHeight, vtx) == << nHeight, vtx >>

GenesisHash == MnhfBlockHash(0, << Coinbase >>)

\* The hash of the block that pindex points to; m.chain holds the blocks
\* connected after the genesis block.
HashAtHeight(m, nHeight) ==
    IF nHeight = 0 THEN GenesisHash ELSE MnhfBlockHash(nHeight, m.chain[nHeight])

\* DEPLOYMENT_V20 is active for every block after the genesis block.
V20Active(nHeight) == nHeight >= 1

\* CMNHFManager::GetFromCache of the block at nHeight: the manager after the
\* call and the signals returned; assert(false) when the database has no
\* entry.
GetFromCache(m, nHeight) ==
    IF HashAtHeight(m, nHeight) \in DOMAIN m.mnhfCache
    THEN [m |-> m, fault |-> FALSE, signals |-> m.mnhfCache[HashAtHeight(m, nHeight)]]
    ELSE IF ~V20Active(nHeight)
    THEN [m |-> [m EXCEPT !.mnhfCache = (HashAtHeight(m, nHeight) :> {}) @@ @],
          fault |-> FALSE, signals |-> {}]
    ELSE IF HashAtHeight(m, nHeight) \notin DOMAIN m.evoDb
    THEN [m |-> m, fault |-> TRUE, signals |-> {}]
    ELSE [m |-> [m EXCEPT !.mnhfCache = (HashAtHeight(m, nHeight)
                                            :> m.evoDb[HashAtHeight(m, nHeight)]) @@ @],
          fault |-> FALSE, signals |-> m.evoDb[HashAtHeight(m, nHeight)]]

\* The signals that GetSignalsStage keeps: those of a known deployment that
\* had started at the median time past of the block they were mined in.
StageKeeps(signal) ==
    signal[1] \in DOMAIN MnhfStartTime /\ ~(signal[2] < MnhfStartTime[signal[1]])

\* CMNHFManager::GetSignalsStage(pindexPrev), with pindexPrev at nHeight.
GetSignalsStageOf(got) == [got EXCEPT !.signals = {s \in @ : StageKeeps(s)}]

GetSignalsStage(m, nHeight) == GetSignalsStageOf(GetFromCache(m, nHeight))

\* CMNHFManager::AddToCache
AddToCache(m, signals, blockHash) ==
    [m EXCEPT !.mnhfCache = (blockHash :> signals) @@ @,
              !.evoDb = (blockHash :> signals) @@ @]

\* std::unordered_map::insert: a key that is present keeps its value.
RECURSIVE InsertSignals(_, _, _, _)
InsertSignals(signals, new_signals, timePast, mined_height) ==
    IF new_signals = <<>> THEN signals
    ELSE InsertSignals(
             IF /\ IsValidMNActivation(Head(new_signals), timePast)
                /\ ~\E s \in signals : s[1] = Head(new_signals)
             THEN signals \cup {<< Head(new_signals), mined_height >>} ELSE signals,
             Tail(new_signals), timePast, mined_height)

BlockReturned(m, ret, reason) == [m |-> m, fault |-> FALSE, ret |-> ret, reason |-> reason]

\* ProcessBlock after extractSignals and GetSignalsStage.
ProcessBlockStaged(m, vtx, nHeight, fJustCheck, new_signals, staged) ==
    IF staged.fault THEN [m |-> m, fault |-> TRUE, ret |-> FALSE, reason |-> ""]
    ELSE IF new_signals = <<>>
    THEN BlockReturned(IF fJustCheck THEN staged.m
                  ELSE AddToCache(staged.m, staged.signals, MnhfBlockHash(nHeight, vtx)),
                  TRUE, "")
    ELSE IF \E b \in SeqToSet(new_signals) : \E s \in staged.signals : s[1] = b
    THEN BlockReturned(staged.m, FALSE, "bad-mnhf-duplicate")
    ELSE IF \E b \in SeqToSet(new_signals) : ~IsValidMNActivation(b, nHeight)
    THEN BlockReturned(staged.m, FALSE, "bad-mnhf-non-mn-fork")
    ELSE IF fJustCheck THEN BlockReturned(staged.m, TRUE, "")
    ELSE BlockReturned(AddToCache(staged.m,
                      InsertSignals(staged.signals, new_signals, nHeight, nHeight),
                      MnhfBlockHash(nHeight, vtx)),
                  TRUE, "")

ProcessBlockExtracted(m, vtx, nHeight, fJustCheck, extracted) ==
    IF extracted.fault THEN [m |-> m, fault |-> TRUE, ret |-> FALSE, reason |-> ""]
    ELSE IF ~extracted.ok THEN BlockReturned(m, FALSE, extracted.reason)
    ELSE ProcessBlockStaged(m, vtx, nHeight, fJustCheck, extracted.new_signals,
                            GetSignalsStage(m, nHeight - 1))

\* CMNHFManager::ProcessBlock of the block vtx on top of the tip.
ProcessBlock(m, vtx, fJustCheck, nullOutcome) ==
    ProcessBlockExtracted(m, vtx, Len(m.chain) + 1, fJustCheck,
                          extractSignals(vtx, Len(m.chain) + 1, nullOutcome))

NoMnhfCall ==
    [fn |-> "none", vtx |-> <<>>, fJustCheck |-> FALSE, fault |-> FALSE, ret |-> FALSE,
     reason |-> "", nHeight |-> 0, before |-> <<>>]

InitMnhf ==
    /\ InitAt(0) /\ ~sporkIS /\ ~fMasternodeMode /\ ~synced
    /\ rot = Idle /\ ser = Idle /\ conn = Idle /\ life = Idle
    /\ memb = [pc |-> "mnhf", chain |-> <<>>, mnhfCache |-> <<>>, evoDb |-> <<>>,
               last |-> NoMnhfCall]

\* The call with its outcome; a block that ProcessBlock accepted without
\* fJustCheck is connected by the caller.
ProcessBlockDone(m, vtx, fJustCheck, r) ==
    [r.m EXCEPT
        !.chain = IF r.ret /\ ~fJustCheck THEN Append(@, vtx) ELSE @,
        !.last = [fn |-> "ProcessBlock", vtx |-> vtx, fJustCheck |-> fJustCheck,
                  fault |-> r.fault, ret |-> r.ret, reason |-> r.reason,
                  nHeight |-> Len(m.chain) + 1,
                  before |-> << m.mnhfCache, m.evoDb >>]]

ProcessBlockCall(vtx, fJustCheck, nullOutcome) ==
    /\ memb.pc = "mnhf"
    /\ ~memb.last.fault
    /\ Len(memb.chain) < MaxMnhfHeight
    /\ memb' = ProcessBlockDone(memb, vtx, fJustCheck,
                                ProcessBlock(memb, vtx, fJustCheck, nullOutcome))
    /\ UNCHANGED <<instantSendVars, rot, ser, conn, life>>

\* CheckMNHFTx of a transaction for the block after the tip.
CheckMNHFTxDone(m, tx, r) ==
    [m EXCEPT !.last = [fn |-> "CheckMNHFTx", vtx |-> << tx >>, fJustCheck |-> FALSE,
                        fault |-> r.fault, ret |-> r.valid, reason |-> r.reason,
                        nHeight |-> Len(m.chain) + 1,
                        before |-> << m.mnhfCache, m.evoDb >>]]

CheckMNHFTxCall(tx, nullOutcome) ==
    /\ memb.pc = "mnhf"
    /\ ~memb.last.fault
    /\ memb' = CheckMNHFTxDone(memb, tx, CheckMNHFTx(tx, Len(memb.chain), nullOutcome))
    /\ UNCHANGED <<instantSendVars, rot, ser, conn, life>>

NextMnhf ==
    \/ \E vtx \in MnhfBlocks, fJustCheck \in BOOLEAN, nullOutcome \in NullQuorumOutcomes :
           ProcessBlockCall(vtx, fJustCheck, nullOutcome)
    \/ \E tx \in MnhfTxs, nullOutcome \in NullQuorumOutcomes :
           CheckMNHFTxCall(tx, nullOutcome)

SpecMnhf == InitMnhf /\ [][NextMnhf]_vars

----------------------------------------------------------------------------
(* CLLMQUtils::GetAllQuorumMembers with its static cache, called by several *)
(* threads.  A quorum base block is its number in the chain, and its hash.  *)

\* Quorum base blocks of the chain.
MaxBlocks == 8
\* LLMQ_TEST and LLMQ_TEST_V17, the types of Params().GetConsensus().llmqs.
LLMQ_TEST == 100
LLMQ_TEST_V17 == 102

LlmqTypes == {LLMQ_TEST, LLMQ_TEST_V17}

Callers == {1, 2}

\* LLMQParams::size and LLMQParams::signingActiveQuorumCount of the two types.
LlmqSize(llmqType) == 3

SigningActiveQuorumCount(llmqType) == 2

\* The block from which DIP0020 is active.
Dip0020Block == 1

\* unordered_lru_cache: the entries <<key, value>>, the last accessed first.
\* truncateThreshold is twice maxSize.
LruFind(c, key) == {i \in DOMAIN c : c[i][1] = key}

LruTouch(c, i) == <<c[i]>> \o SubSeq(c, 1, i - 1) \o SubSeq(c, i + 1, Len(c))

\* get(key, value): the value goes to ret, the entry to the front.
LruGet(c, key) ==
    IF LruFind(c, key) = {} THEN [found |-> FALSE, ret |-> <<>>, cache |-> c]
    ELSE [found |-> TRUE, ret |-> c[CHOOSE i \in LruFind(c, key) : TRUE][2],
          cache |-> LruTouch(c, CHOOSE i \in LruFind(c, key) : TRUE)]

TruncateIfNeeded(c, maxSize) ==
    IF Len(c) <= 2 * maxSize THEN c ELSE SubSeq(c, 1, maxSize)

LruEmplace(c, key, value) ==
    <<<<key, value>>>> \o SelectSeq(c, LAMBDA e : e[1] /= key)

\* insert(key, value)
LruInsert(c, key, value, maxSize) == LruEmplace(TruncateIfNeeded(c, maxSize), key, value)

\* ::SerializeHash(std::make_pair(llmqType, blockHash)) as the order of the
\* scores that it gives to the masternodes.
Modifier(llmqType, blockHash) ==
    [i \in 1..MaxMns |-> ((i + llmqType + blockHash) % MaxMns) + 1]

\* deterministicMNManager->GetListForBlock: the list changes from block to block.
GetListForBlock(pindex) == MnIds \ {(pindex % MaxMns) + 1}

IsQuorumTypeEnabled(llmqType, pindex) ==
    IF llmqType = LLMQ_TEST_V17 THEN pindex >= Dip0020Block ELSE TRUE

\* InitQuorumsCache: one cache per type.
InitQuorumsCache == [t \in LlmqTypes |-> <<>>]

\* The members computed on a miss of the cache.
ComputeQuorumMembers(llmqType, pindex) ==
    CalculateQuorum(GetListForBlock(pindex), LlmqSize(llmqType),
                    Modifier(llmqType, GetBlockHash(pindex)))

\* The lookup with the caches of all the types taken as one.
MembersCacheGetAnyType(caches, llmqType, blockHash) ==
    LruGet(caches[CHOOSE t \in LlmqTypes :
                      \A u \in LlmqTypes : Len(caches[u]) <= Len(caches[t])], blockHash)

\* mapQuorumMembers[llmqType].get(blockHash, quorumMembers)
MembersCacheGet(caches, llmqType, blockHash) == LruGet(caches[llmqType], blockHash)

\* The first part of GetAllQuorumMembers, up to the end of the first
\* LOCK(cs_members), for the caller k; g is the result of the get.
Returned(m, k, llmqType, pindex, members) ==
    [m EXCEPT !.callers[k] = [pc |-> "idle", llmqType |-> llmqType, block |-> pindex,
                              quorumMembers |-> members],
              !.returned = @ \cup {<<llmqType, pindex, members>>}]

MembersLookedUp(m, k, llmqType, pindex, g) ==
    IF g.found
    THEN Returned([m EXCEPT !.cache[llmqType] = g.cache], k, llmqType, pindex, g.ret)
    ELSE [m EXCEPT !.callers[k] = [pc |-> "compute", llmqType |-> llmqType,
                                   block |-> pindex, quorumMembers |-> <<>>]]

WithCache(m) == IF m.cache = <<>> THEN [m EXCEPT !.cache = InitQuorumsCache] ELSE m

GetAllQuorumMembersBegin(m, k, llmqType, pindex) ==
    IF ~IsQuorumTypeEnabled(llmqType, pindex - 1)
    THEN Returned(m, k, llmqType, pindex, <<>>)
    ELSE MembersLookedUp(WithCache(m), k, llmqType, pindex,
             MembersCacheGet(WithCache(m).cache, llmqType, GetBlockHash(pindex)))

\* allMns.CalculateQuorum, outside the lock.
GetAllQuorumMembersCompute(m, k) ==
    [m EXCEPT !.callers[k].pc = "insert",
              !.callers[k].quorumMembers =
                  ComputeQuorumMembers(m.callers[k].llmqType, m.callers[k].block)]

\* The second LOCK(cs_members): the insert, and the return.
GetAllQuorumMembersInsert(m, k) ==
    Returned([m EXCEPT !.cache[m.callers[k].llmqType] =
                 LruInsert(@, GetBlockHash(m.callers[k].block), m.callers[k].quorumMembers,
                           SigningActiveQuorumCount(m.callers[k].llmqType) + 1)],
             k, m.callers[k].llmqType, m.callers[k].block, m.callers[k].quorumMembers)

InitMembers ==
    /\ InitAt(0) /\ ~sporkIS /\ ~fMasternodeMode /\ ~synced
    /\ rot = Idle /\ ser = Idle /\ conn = Idle /\ life = Idle
    /\ memb = [tip |-> 1, cache |-> <<>>, returned |-> {},
               callers |-> [k \in Callers |-> [pc |-> "idle", llmqType |-> LLMQ_TEST,
                                                block |-> 0, quorumMembers |-> <<>>]]]

\* A new quorum base block, once the members of the quorum of the last one
\* have been asked for.
NewBaseBlock ==
    /\ memb.tip < MaxBlocks
    /\ \E r \in memb.returned : r[1] = LLMQ_TEST /\ r[2] = memb.tip
    /\ memb' = [memb EXCEPT !.tip = @ + 1]
    /\ UNCHANGED <<instantSendVars, rot, ser, conn, life>>

\* The first caller asks for the quorum of the newest base block, the second
\* for the quorums of the first two base blocks.
Requests(k, tip) ==
    IF k = 1 THEN {<<LLMQ_TEST, tip>>}
    ELSE {<<t, b>> : t \in LlmqTypes, b \in {c \in {1, 2} : c <= tip}}

MembersBegin(k, llmqType, pindex) ==
    /\ memb.callers[k].pc = "idle"
    /\ <<llmqType, pindex>> \in Requests(k, memb.tip)
    /\ memb' = GetAllQuorumMembersBegin(memb, k, llmqType, pindex)
    /\ UNCHANGED <<instantSendVars, rot, ser, conn, life>>

MembersCompute(k) ==
    /\ memb.callers[k].pc = "compute"
    /\ memb' = GetAllQuorumMembersCompute(memb, k)
    /\ UNCHANGED <<instantSendVars, rot, ser, conn, life>>

MembersInsert(k) ==
    /\ memb.callers[k].pc = "insert"
    /\ memb' = GetAllQuorumMembersInsert(memb, k)
    /\ UNCHANGED <<instantSendVars, rot, ser, conn, life>>

NextMembers ==
    \/ NewBaseBlock
    \/ \E k \in Callers, t \in LlmqTypes, b \in 1..MaxBlocks : MembersBegin(k, t, b)
    \/ \E k \in Callers : MembersCompute(k)
    \/ \E k \in Callers : MembersInsert(k)

SpecMembers == InitMembers /\ [][NextMembers]_vars

(* CLLMQUtils::BuildCommitmentHash: the fields of a commitment written to a *)
(* CHashWriter.  A uint256 and a CBLSPublicKey are one symbol of the stream. *)

\* CFinalCommitment::CURRENT_VERSION and QUORUM_INDEXED_VERSION
CURRENT_VERSION == 1
QUORUM_INDEXED_VERSION == 2

QuorumIndexes == {0, 1, 258}

\* DYNBITSET(vec): the size of the vector and then its bits.
WriteDynBitSet(vec) == WriteCompactSize(Len(vec)) \o WriteFixedBitSet(vec, Len(vec))

\* The fields in the order llmqType, blockHash, validMembers, pubKey, vvecHash
\* and, for the indexed version, quorumIndex after them.
BuildCommitmentHashIndexLast(llmqType, blockHash, validMembers, pubKey, vvecHash, nVersion, quorumIndex) ==
    GetHash(<< llmqType >> \o << blockHash >> \o WriteDynBitSet(validMembers)
                \o << pubKey >> \o << vvecHash >>
                \o (IF nVersion = QUORUM_INDEXED_VERSION THEN LittleEndian(quorumIndex, 4)
                    ELSE <<>>))

BuildCommitmentHash(llmqType, blockHash, validMembers, pubKey, vvecHash, nVersion, quorumIndex) ==
    GetHash(<< llmqType >> \o << blockHash >>
                \o (IF nVersion = QUORUM_INDEXED_VERSION THEN LittleEndian(quorumIndex, 4)
                    ELSE <<>>)
                \o WriteDynBitSet(validMembers) \o << pubKey >> \o << vvecHash >>)

\* The fields of a commitment.
InitCommitment ==
    /\ InitAt(0) /\ ~sporkIS /\ ~fMasternodeMode /\ ~synced
    /\ rot = Idle /\ memb = Idle /\ conn = Idle /\ life = Idle
    /\ ser \in [pc : {"input"}, llmqType : {LLMQ_TEST, LLMQ_TEST_V17},
                blockHash : {501, 502}, validMembers : [1..2 -> BOOLEAN] \cup {<<>>},
                pubKey : {601, 602}, vvecHash : {701, 702},
                nVersion : {CURRENT_VERSION, QUORUM_INDEXED_VERSION},
                quorumIndex : QuorumIndexes, hash : {GetHash(<<>>)}]

BuildCommitmentHashCall ==
    /\ ser.pc = "input"
    /\ ser' = [ser EXCEPT !.pc = "hashed",
                          !.hash = BuildCommitmentHash(ser.llmqType, ser.blockHash,
                                       ser.validMembers, ser.pubKey, ser.vvecHash,
                                       ser.nVersion, ser.quorumIndex)]
    /\ UNCHANGED <<instantSendVars, rot, memb, conn, life>>

NextCommitment == BuildCommitmentHashCall

SpecCommitment == InitCommitment /\ [][NextCommitment]_vars

----------------------------------------------------------------------------
(* Quorum connections (llmq/utils.cpp): DeterministicOutboundConnection,    *)
(* GetQuorumConnections and GetQuorumRelayMembers.  h is the table of       *)
(* ::SerializeHash over the tuples (lower proTxHash, higher, one of them).  *)

\* Members of the quorum whose connections are computed.
MaxMembers == 3

ProTxHashes == 1..MaxMembers

CanonicalTuples ==
    {t \in ProTxHashes \X ProTxHashes \X ProTxHashes : t[1] < t[2] /\ t[3] \in {t[1], t[2]}}

\* The hash tables: two tuples of one pair never collide.
HashTables ==
    {h \in [CanonicalTuples -> {1, 2}] :
        \A t \in CanonicalTuples : h[<<t[1], t[2], t[1]>>] /= h[<<t[1], t[2], t[2]>>]}

\* The choice made on the position of the lower proTxHash alone.
DeterministicOutboundByPosition(h, proTxHash1, proTxHash2) ==
    IF proTxHash1 < proTxHash2
    THEN (IF h[<<proTxHash1, proTxHash2, proTxHash1>>] < h[<<proTxHash1, proTxHash2, proTxHash2>>]
          THEN proTxHash1 ELSE proTxHash2)
    ELSE (IF h[<<proTxHash2, proTxHash1, proTxHash2>>] < h[<<proTxHash2, proTxHash1, proTxHash1>>]
          THEN proTxHash1 ELSE proTxHash2)

DeterministicOutboundConnection(h, proTxHash1, proTxHash2) ==
    LET h1 == IF proTxHash1 < proTxHash2 THEN h[<<proTxHash1, proTxHash2, proTxHash1>>]
              ELSE h[<<proTxHash2, proTxHash1, proTxHash1>>]
        h2 == IF proTxHash1 < proTxHash2 THEN h[<<proTxHash1, proTxHash2, proTxHash2>>]
              ELSE h[<<proTxHash2, proTxHash1, proTxHash2>>]
    IN  IF h1 < h2 THEN proTxHash1 ELSE proTxHash2

\* The ring with the gaps 1, 2, 4, ... up to half of the quorum size.
calcOutboundHalfRing(mns, i) ==
    [hangs |-> FALSE,
     ret |-> {mns[((i + g) % Len(mns)) + 1] : g \in {g \in {1, 2, 4, 8} : 2 * g <= Len(mns)}}]

\* calcOutbound: the while loop, with gap_max before its shift.  i and idx
\* count from 0.  On the member itself the loop continues with gap and k as
\* they are: while k <= 1 holds the condition stays true and the loop never
\* ends (hangs), later gap_max shifts down to 0.
RECURSIVE CalcOutboundLoop(_, _, _, _, _, _)
CalcOutboundLoop(mns, i, gap, gap_max, k, r) ==
    IF ~((gap_max \div 2) /= 0 \/ k <= 1) THEN [hangs |-> FALSE, ret |-> r]
    ELSE IF mns[((i + gap) % Len(mns)) + 1] = mns[i + 1]
    THEN (IF k <= 1 THEN [hangs |-> TRUE, ret |-> r]
          ELSE CalcOutboundLoop(mns, i, gap, gap_max \div 2, k, r))
    ELSE CalcOutboundLoop(mns, i, 2 * gap, gap_max \div 2, k + 1,
                          r \cup {mns[((i + gap) % Len(mns)) + 1]})

calcOutbound(mns, i) == CalcOutboundLoop(mns, i, 1, Len(mns) - 1, 0, {})

\* The loop of GetQuorumRelayMembers over the members from index i on.
RECURSIVE RelayMembersFrom(_, _, _, _, _)

RelayMembersAt(mns, forMember, onlyOutbound, i, result, r) ==
    IF r.hangs THEN [hangs |-> TRUE, ret |-> result]
    ELSE IF mns[i + 1] = forMember
    THEN RelayMembersFrom(mns, forMember, onlyOutbound, i + 1, result \cup r.ret)
    ELSE IF forMember \in r.ret
    THEN RelayMembersFrom(mns, forMember, onlyOutbound, i + 1, result \cup {mns[i + 1]})
    ELSE RelayMembersFrom(mns, forMember, onlyOutbound, i + 1, result)

RelayMembersFrom(mns, forMember, onlyOutbound, i, result) ==
    IF i >= Len(mns) THEN [hangs |-> FALSE, ret |-> result]
    ELSE IF mns[i + 1] /= forMember /\ onlyOutbound
    THEN RelayMembersFrom(mns, forMember, onlyOutbound, i + 1, result)
    ELSE RelayMembersAt(mns, forMember, onlyOutbound, i, result, calcOutbound(mns, i))

GetQuorumRelayMembers(mns, forMember, onlyOutbound) ==
    RelayMembersFrom(mns, forMember, onlyOutbound, 0, {})

\* mns: the members that GetAllQuorumMembers returns for the quorum.
GetQuorumConnections(h, allConnected, mns, forMember, onlyOutbound) ==
    IF allConnected
    THEN [hangs |-> FALSE,
          ret |-> {m \in SeqToSet(mns) :
                      /\ m /= forMember
                      /\ ~onlyOutbound \/ DeterministicOutboundConnection(h, forMember, m) = m}]
    ELSE GetQuorumRelayMembers(mns, forMember, onlyOutbound)

NoCall == [fn |-> "none", args |-> <<>>, hangs |-> FALSE, ret |-> {}]

\* The hashes, SPORK_21_QUORUM_ALL_CONNECTED and the members of the quorum.
InitConnections ==
    /\ InitAt(0) /\ ~sporkIS /\ ~fMasternodeMode /\ ~synced
    /\ rot = Idle /\ ser = Idle /\ memb = Idle /\ life = Idle
    /\ conn \in [h : HashTables, allConnected : BOOLEAN,
                 mns : {[i \in 1..n |-> i] : n \in 1..MaxMembers},
                 last : {NoCall}, prev : {NoCall}]

DeterministicOutboundConnectionCall(proTxHash1, proTxHash2) ==
    /\ proTxHash1 /= proTxHash2
    /\ conn' = [conn EXCEPT
           !.prev = conn.last,
           !.last = [fn |-> "DeterministicOutboundConnection",
                     args |-> <<proTxHash1, proTxHash2>>, hangs |-> FALSE,
                     ret |-> {DeterministicOutboundConnection(conn.h, proTxHash1, proTxHash2)}]]
    /\ UNCHANGED <<instantSendVars, rot, ser, memb, life>>

Called(c, forMember, onlyOutbound, r) ==
    [c EXCEPT !.prev = c.last,
              !.last = [fn |-> "GetQuorumConnections", args |-> <<forMember, onlyOutbound>>,
                        hangs |-> r.hangs, ret |-> r.ret]]

GetQuorumConnectionsCall(forMember, onlyOutbound) ==
    /\ forMember \in SeqToSet(conn.mns)
    /\ conn' = Called(conn, forMember, onlyOutbound,
                       GetQuorumConnections(conn.h, conn.allConnected, conn.mns,
                                            forMember, onlyOutbound))
    /\ UNCHANGED <<instantSendVars, rot, ser, memb, life>>

NextConnections ==
    \/ \E a \in ProTxHashes, b \in ProTxHashes : DeterministicOutboundConnectionCall(a, b)
    \/ \E m \in ProTxHashes, o \in BOOLEAN : GetQuorumConnectionsCall(m, o)

SpecConnections == InitConnections /\ [][NextConnections]_vars

(* GetQuorumRelayMembers on quorums of up to MaxRing members, with          *)
(* SPORK_21_QUORUM_ALL_CONNECTED off.                                        *)

MaxRing == 9

InitRelay ==
    /\ InitAt(0) /\ ~sporkIS /\ ~fMasternodeMode /\ ~synced
    /\ rot = Idle /\ ser = Idle /\ memb = Idle /\ life = Idle
    /\ conn \in [h : {<<>>}, allConnected : {FALSE},
                 mns : {[i \in 1..n |-> i] : n \in 1..MaxRing},
                 last : {NoCall}, prev : {NoCall}]

GetQuorumRelayMembersCall(forMember, onlyOutbound) ==
    /\ forMember \in SeqToSet(conn.mns)
    /\ conn' = [Called(conn, forMember, onlyOutbound,
                        GetQuorumRelayMembers(conn.mns, forMember, onlyOutbound))
                   EXCEPT !.last.fn = "GetQuorumRelayMembers"]
    /\ UNCHANGED <<instantSendVars, rot, ser, memb, life>>

NextRelay ==
    \E m \in 1..MaxRing, o \in BOOLEAN : GetQuorumRelayMembersCall(m, o)

SpecRelay == InitRelay /\ [][NextRelay]_vars

----------------------------------------------------------------------------
(* CLLMQUtils::CalcDeterministicWatchConnections called by several threads. *)
(* The function statics are the seed, its flag and its lock.  A uint256 is  *)
(* written word by word: the seed is <<high word, low word>>, and a reader  *)
(* that does not hold the lock can see one word written and not the other.  *)

WatchThreads == {1, 2}

MaxWatchCalls == 2

\* The words GetRandHash can return.
SeedWords == {1, 2}

HashSpace == 64

WatchArgs ==
    [llmqType : {LLMQ_TEST}, blockHash : {1}, memberCount : {3}, connectionCount : {1, 2}]

\* ::SerializeHash(std::make_pair(rnd, std::make_pair(llmqType, blockHash)))
WatchHash(rnd, llmqType, blockHash) ==
    (rnd * 5 + llmqType * 3 + blockHash * 7 + 1) % HashSpace

\* uint256::GetUint64(0): the low 64-bit word, here the low four bits.
GetUint64(rnd) == rnd % 16

\* The loop over connectionCount, from the i-th round on.
RECURSIVE WatchLoop(_, _, _, _)
WatchLoop(rnd, a, i, result) ==
    IF i >= a.connectionCount THEN result
    ELSE WatchLoop(WatchHash(rnd, a.llmqType, a.blockHash), a, i + 1,
                   result \cup {GetUint64(WatchHash(rnd, a.llmqType, a.blockHash))
                                   % a.memberCount})

\* The seed as one number.
SeedNumber(seed) == seed[1] * 4 + seed[2]

IdleThread == [pc |-> "idle", args |-> <<>>, calls |-> 0]

InitWatch ==
    /\ InitAt(0) /\ ~sporkIS /\ ~fMasternodeMode /\ ~synced
    /\ rot = Idle /\ ser = Idle /\ memb = Idle /\ life = Idle
    /\ conn = [pc |-> "watch", qwatchConnectionSeed |-> <<0, 0>>,
               qwatchConnectionSeedGenerated |-> FALSE,
               qwatchConnectionSeedCs |-> 0,
               th |-> [t \in WatchThreads |-> IdleThread],
               returned |-> {}]

WatchStep(w) == conn' = w /\ UNCHANGED <<instantSendVars, rot, ser, memb, life>>

\* A thread calls the function.
WatchCall(t, a) ==
    /\ conn.th[t].pc = "idle" /\ conn.th[t].calls < MaxWatchCalls
    /\ WatchStep([conn EXCEPT !.th[t] = [pc |-> "test", args |-> a, calls |-> @.calls + 1]])

\* if (!qwatchConnectionSeedGenerated)
WatchTest(t) ==
    /\ conn.th[t].pc = "test"
    /\ WatchStep([conn EXCEPT !.th[t].pc =
                      IF conn.qwatchConnectionSeedGenerated THEN "loop" ELSE "lock"])

\* LOCK(qwatchConnectionSeedCs)
WatchLock(t) ==
    /\ conn.th[t].pc = "lock" /\ conn.qwatchConnectionSeedCs = 0
    /\ WatchStep([conn EXCEPT !.qwatchConnectionSeedCs = t, !.th[t].pc = "seedHigh"])

\* qwatchConnectionSeed = GetRandHash(), the high word
WatchSeedHigh(t, word) ==
    /\ conn.th[t].pc = "seedHigh"
    /\ WatchStep([conn EXCEPT !.qwatchConnectionSeed[1] = word, !.th[t].pc = "seedLow"])

\* qwatchConnectionSeed = GetRandHash(), the low word
WatchSeedLow(t, word) ==
    /\ conn.th[t].pc = "seedLow"
    /\ WatchStep([conn EXCEPT !.qwatchConnectionSeed[2] = word, !.th[t].pc = "flag"])

\* qwatchConnectionSeedGenerated = true, and the lock is released
WatchFlag(t) ==
    /\ conn.th[t].pc = "flag"
    /\ WatchStep([conn EXCEPT !.qwatchConnectionSeedGenerated = TRUE,
                              !.qwatchConnectionSeedCs = 0, !.th[t].pc = "loop"])

\* rnd = qwatchConnectionSeed, the loop, and the return
WatchReturn(t) ==
    /\ conn.th[t].pc = "loop"
    /\ WatchStep([conn EXCEPT
           !.th[t].pc = "idle",
           !.returned = @ \cup {<<conn.th[t].args,
                                   WatchLoop(SeedNumber(conn.qwatchConnectionSeed),
                                             conn.th[t].args, 0, {})>>}])

NextWatch ==
    \/ \E t \in WatchThreads, a \in WatchArgs : WatchCall(t, a)
    \/ \E t \in WatchThreads : WatchTest(t)
    \/ \E t \in WatchThreads : WatchLock(t)
    \/ \E t \in WatchThreads, word \in SeedWords : WatchSeedHigh(t, word)
    \/ \E t \in WatchThreads, word \in SeedWords : WatchSeedLow(t, word)
    \/ \E t \in WatchThreads : WatchFlag(t)
    \/ \E t \in WatchThreads : WatchReturn(t)

SpecWatch == InitWatch /\ [][NextWatch]_vars

----------------------------------------------------------------------------
(* The accesses of CInstantSendManager::inputRequestIds by the threads that *)
(* run ProcessTx, HandleNewRecoveredSig and NotifyChainLock.  Each function *)
(* is the sequence of its lock operations and of its operations on the set; *)
(* an operation on a std::set takes time, so it begins and ends in two      *)
(* steps and another thread can run in between.                             *)

LockThreads == {1, 2, 3}

\* ProcessTx: the loop 'inputRequestIds.emplace(id)' runs with no lock taken
\* by the function or by its caller RetryLockMempoolTxs, whose LOCK(cs) block
\* ends before the call; TrySignInstantSendLock then takes cs.
\* HandleNewRecoveredSig: LOCK(cs), inputRequestIds.count(id).
\* NotifyChainLock: LOCK(cs), RemoveFinalISLock: inputRequestIds.erase(id).
LockProgram(fn) ==
    CASE fn = "ProcessTx" -> << "emplace", "lock", "unlock" >>
      [] fn = "HandleNewRecoveredSig" -> << "lock", "count", "unlock" >>
      [] fn = "NotifyChainLock" -> << "lock", "erase", "unlock" >>

LockFunctions == {"ProcessTx", "HandleNewRecoveredSig", "NotifyChainLock"}

SetOperations == {"emplace", "count", "erase"}

LockRequestIds == {InputLockRequestId(o) : o \in {1, 2}}

NotRunning == [fn |-> "none", ip |-> 0, id |-> 0, inside |-> FALSE]

\* The operation thread t is at, "none" when it runs no function.
LockOp(c, t) ==
    IF c.th[t].fn = "none" THEN "none" ELSE LockProgram(c.th[t].fn)[c.th[t].ip]

\* Thread t is done with its operation: the next one, or the return.
LockAdvance(c, t) ==
    IF c.th[t].ip = Len(LockProgram(c.th[t].fn))
    THEN [c EXCEPT !.th[t] = NotRunning]
    ELSE [c EXCEPT !.th[t].ip = @ + 1, !.th[t].inside = FALSE]

\* What the operation does to the set when it ends.
SetAfter(ids, op, id) ==
    IF op = "emplace" THEN ids \cup {id}
    ELSE IF op = "erase" THEN ids \ {id}
    ELSE ids

InitLocks ==
    /\ InitAt(0) /\ ~sporkIS /\ ~fMasternodeMode /\ ~synced
    /\ rot = Idle /\ ser = Idle /\ memb = Idle /\ life = Idle
    /\ conn = [pc |-> "locks", cs |-> 0, ids |-> {},
               th |-> [t \in LockThreads |-> NotRunning]]

LockStep(c) == conn' = c /\ UNCHANGED <<instantSendVars, rot, ser, memb, life>>

\* Thread t enters fn, which will work on the request id.
LockCall(t, fn, id) ==
    /\ conn.th[t].fn = "none"
    /\ LockStep([conn EXCEPT !.th[t] = [fn |-> fn, ip |-> 1, id |-> id, inside |-> FALSE]])

\* LOCK(cs)
LockAcquire(t) ==
    /\ LockOp(conn, t) = "lock" /\ conn.cs = 0
    /\ LockStep(LockAdvance([conn EXCEPT !.cs = t], t))

\* The end of the LOCK(cs) scope.
LockRelease(t) ==
    /\ LockOp(conn, t) = "unlock"
    /\ LockStep(LockAdvance([conn EXCEPT !.cs = 0], t))

\* The operation on inputRequestIds begins.
SetOpBegin(t) ==
    /\ LockOp(conn, t) \in SetOperations /\ ~conn.th[t].inside
    /\ LockStep([conn EXCEPT !.th[t].inside = TRUE])

\* The operation on inputRequestIds ends.
SetOpEnd(t) ==
    /\ LockOp(conn, t) \in SetOperations /\ conn.th[t].inside
    /\ LockStep(LockAdvance([conn EXCEPT !.ids = SetAfter(@, LockOp(conn, t), conn.th[t].id)], t))

NextLocks ==
    \/ \E t \in LockThreads, fn \in LockFunctions, id \in LockRequestIds : LockCall(t, fn, id)
    \/ \E t \in LockThreads : LockAcquire(t)
    \/ \E t \in LockThreads : LockRelease(t)
    \/ \E t \in LockThreads : SetOpBegin(t)
    \/ \E t \in LockThreads : SetOpEnd(t)

SpecLocks == InitLocks /\ [][NextLocks]_vars

-----------------------------------------------------------------------------
(* The LLMQ components (llmq/quorums_init.cpp): InitLLMQSystem constructs    *)
(* them, StartLLMQSystem starts their workers, StopLLMQSystem stops them,    *)
(* DestroyLLMQSystem deletes them.  ptr[c] is TRUE when the global pointer c *)
(* is not null; trace lists what the last call did, in order.               *)

MaxCalls == 4

Components ==
    {"quorumDKGDebugManager", "quorumBlockProcessor", "quorumDKGSessionManager",
     "quorumManager", "quorumSigSharesManager", "quorumSigningManager",
     "chainLocksHandler"}

Reverse(seq) == [i \in 1..Len(seq) |-> seq[Len(seq) + 1 - i]]

\* A call begins: its name is logged and its trace is empty.
Enter(l, fn) == [l EXCEPT !.calls = Append(@, fn), !.trace = <<>>]

\* c = new C(...)
New(l, c) ==
    [l EXCEPT !.ptr[c] = TRUE,
              !.constructed = Append(@, c),
              !.trace = Append(@, <<"new", c>>)]

Without(seq, c) == LET Other(x) == x /= c IN SelectSeq(seq, Other)

\* delete c; c = nullptr.  delete of a null pointer does nothing.  The workers
\* of c end with it.
Delete(l, c) ==
    IF l.ptr[c]
    THEN [l EXCEPT !.ptr[c] = FALSE,
                   !.running = @ \ {c},
                   !.startOrder = Without(@, c),
                   !.trace = Append(@, <<"delete", c>>)]
    ELSE l

\* if (c) c->Start...(): StartScheduler, StartMessageHandlerPool,
\* StartWorkerThread, RegisterAsRecoveredSigsListener.
Start(l, c) ==
    IF l.ptr[c]
    THEN [l EXCEPT !.running = @ \cup {c},
                   !.startOrder = Append(@, c),
                   !.trace = Append(@, <<"start", c>>)]
    ELSE l

\* if (c) c->Stop...(): UnregisterAsRecoveredSigsListener, StopWorkerThread,
\* StopMessageHandlerPool.
Stop(l, c) ==
    IF l.ptr[c]
    THEN [l EXCEPT !.running = @ \ {c}, !.trace = Append(@, <<"stop", c>>)]
    ELSE l

InitLLMQSystem(l) ==
    New(New(New(New(New(New(New(
        [Enter(l, "InitLLMQSystem") EXCEPT !.constructed = <<>>, !.startOrder = <<>>,
                                           !.interrupted = FALSE],
        "quorumDKGDebugManager"),
        "quorumBlockProcessor"),
        "quorumDKGSessionManager"),
        "quorumManager"),
        "quorumSigSharesManager"),
        "quorumSigningManager"),
        "chainLocksHandler")

\* The components deleted in the order InitLLMQSystem constructed them.
DestroyInConstructionOrder(l) ==
    Delete(Delete(Delete(Delete(Delete(Delete(Delete(
        Enter(l, "DestroyLLMQSystem"),
        "quorumDKGDebugManager"),
        "quorumBlockProcessor"),
        "quorumDKGSessionManager"),
        "quorumManager"),
        "quorumSigSharesManager"),
        "quorumSigningManager"),
        "chainLocksHandler")

DestroyLLMQSystem(l) ==
    Delete(Delete(Delete(Delete(Delete(Delete(Delete(
        Enter(l, "DestroyLLMQSystem"),
        "chainLocksHandler"),
        "quorumSigningManager"),
        "quorumSigSharesManager"),
        "quorumManager"),
        "quorumDKGSessionManager"),
        "quorumBlockProcessor"),
        "quorumDKGDebugManager")

StartLLMQSystem(l) ==
    Start(Start(Start(Start(
        [Enter(l, "StartLLMQSystem") EXCEPT !.startOrder = <<>>],
        "quorumDKGDebugManager"),
        "quorumDKGSessionManager"),
        "quorumSigSharesManager"),
        "chainLocksHandler")

StopLLMQSystem(l) ==
    Stop(Stop(Stop(
        Enter(l, "StopLLMQSystem"),
        "chainLocksHandler"),
        "quorumSigSharesManager"),
        "quorumDKGSessionManager")

\* if (quorumSigSharesManager) quorumSigSharesManager->InterruptWorkerThread()
InterruptLLMQSystem(l) ==
    IF l.ptr["quorumSigSharesManager"]
    THEN [Enter(l, "InterruptLLMQSystem") EXCEPT
             !.interrupted = TRUE,
             !.trace = << <<"interrupt", "quorumSigSharesManager">> >>]
    ELSE Enter(l, "InterruptLLMQSystem")

\* The components StopLLMQSystem has a stop call for.
HasStop == {"quorumDKGSessionManager", "quorumSigSharesManager", "chainLocksHandler"}

\* Before InitLLMQSystem: every global pointer is null, nothing runs.
InitLifecycle ==
    /\ InitAt(0) /\ ~sporkIS /\ ~fMasternodeMode /\ ~synced
    /\ rot = Idle /\ ser = Idle /\ memb = Idle /\ conn = Idle
    /\ life = [ptr |-> [c \in Components |-> FALSE], constructed |-> <<>>,
               startOrder |-> <<>>, running |-> {}, interrupted |-> FALSE,
               calls |-> <<>>, trace |-> <<>>]

LifeCall(l) ==
    /\ Len(life.calls) < MaxCalls
    /\ life' = l
    /\ UNCHANGED <<instantSendVars, rot, ser, memb, conn>>

\* One-time construction: the pointers are null when InitLLMQSystem runs.
InitLLMQSystemCall ==
    /\ \A c \in Components : ~life.ptr[c]
    /\ LifeCall(InitLLMQSystem(life))

\* The workers are started once after construction.
StartLLMQSystemCall ==
    /\ life.running = {}
    /\ life.startOrder = <<>>
    /\ LifeCall(StartLLMQSystem(life))

InterruptLLMQSystemCall == LifeCall(InterruptLLMQSystem(life))

StopLLMQSystemCall == LifeCall(StopLLMQSystem(life))

\* Shutdown stops the workers before it deletes the components.
DestroyLLMQSystemCall ==
    /\ life.running \cap HasStop = {}
    /\ LifeCall(DestroyLLMQSystem(life))

NextLifecycle ==
    \/ InitLLMQSystemCall
    \/ StartLLMQSystemCall
    \/ InterruptLLMQSystemCall
    \/ StopLLMQSystemCall
    \/ DestroyLLMQSystemCall

SpecLifecycle == InitLifecycle /\ [][NextLifecycle]_vars

----------------------------------------------------------------------------
(* Claims *)

\* ::SerializeHash is collision-free: the islock a hash stands for.
IslockOfHash(hash) == CHOOSE l \in IslockUniverse : SerializeHash(l) = hash

\* The step is a call of NotifyChainLock with the queued block index.
NotifyChainLockReturns == clNotify /= NullIndex /\ clNotify' = NullIndex

\* The blocks between the recorded watermark (excluded) and pindex (included).
AboveWatermark(h, pindex) ==
    /\ 0 < h /\ h <= pindex
    /\ is_lcb /= NullHash => h > BlockIndexOf(is_lcb)

\* The islocks ProcessPendingInstantSendLocks hands to ProcessInstantSendLock
\* in state s: those that verify and those it does not verify.
Deliverable(s) == {l \in NetIslocks : VerifiesInBatch(s.tipHeight, l) \/ ~NeedsVerify(s, l)}

\* C1: input exclusivity: for every outpoint o, at most one stored islock lists
\* o in its inputs.
C1_InputExclusivity ==
    \A o \in Outpoints :
        Cardinality({h \in DOMAIN is_i : o \in SeqToSet(is_i[h].inputs)}) <= 1

\* C2: ChainLock supersession: when NotifyChainLock(pindex) returns, no islock
\* is left in the store, by hash, by txid or by input, for a txid of a block
\* between the previous watermark and pindex.
C2_ChainLockSupersession ==
    [][NotifyChainLockReturns =>
          \A tx \in Txids :
              AboveWatermark(minedAt[tx], clNotify) =>
                  /\ \A h \in DOMAIN is_i' : is_i'[h].txid /= tx
                  /\ tx \notin DOMAIN is_tx'
                  /\ \A o \in DOMAIN is_in' : IslockOfHash(is_in'[o]).txid /= tx]_vars

\* C3: first islock for a txid wins: ProcessInstantSendLock on an islock whose
\* txid has a stored islock with another hash does not write the new islock,
\* and the txid index keeps the first hash.
C3_FirstIslockWins ==
    \A l \in Deliverable(St) :
        LET hash == SerializeHash(l)
            after == ProcessInstantSendLock(St, 1, hash, l)
        IN  (l.txid \in DOMAIN is_tx /\ is_tx[l.txid] /= hash) =>
                /\ hash \notin DOMAIN after.is_i
                /\ after.is_tx[l.txid] = is_tx[l.txid]

\* C4: every islock that was stored or relayed carries the valid recovered
\* signature of the quorum; one whose sig does not verify is never stored or
\* relayed, also when the recovered signature for its request id and txid is
\* known to the signing engine.
C4_StoredSigIsValid ==
    /\ \A h \in DOMAIN writes : VerifiesInBatch(St.tipHeight, IslockOfHash(h))
    /\ \A h \in DOMAIN relayed : VerifiesInBatch(St.tipHeight, IslockOfHash(h))

\* C5: when NotifyChainLock(pindex) returns for a non-null pindex, the
\* persisted last-ChainLocked block is the hash of the block of pindex.
C5_LastChainLockBlock ==
    [][NotifyChainLockReturns => is_lcb' = GetBlockHash(clNotify)]_vars

\* A vote of this node binds the request id of an input of tx to another txid.
VoteConflict(s, tx) ==
    \E i \in DOMAIN Vin[tx] :
        LET id == InputLockRequestId(Vin[tx][i])
        IN  HasVotedOnId(s, id) /\ GetVoteForId(s, id) /= tx

\* The stored islock the input index gives for o is for another txid than tx.
CoveredForOther(s, o, tx) ==
    /\ o \in DOMAIN s.is_in
    /\ s.is_in[o] \in DOMAIN s.is_i
    /\ s.is_i[s.is_in[o]].txid /= tx

IslockConflict(s, tx) == \E i \in DOMAIN Vin[tx] : CoveredForOther(s, Vin[tx][i], tx)

\* The txid of the islock on the first input of tx that is covered for another.
LockedTxid(s, tx) ==
    LET i == CHOOSE j \in DOMAIN Vin[tx] :
                 /\ CoveredForOther(s, Vin[tx][j], tx)
                 /\ \A k \in 1..(j - 1) : ~CoveredForOther(s, Vin[tx][k], tx)
    IN  s.is_i[s.is_in[Vin[tx][i]]].txid

\* ProcessTx(tx) in state s asks for no signature share and binds no vote.
RequestsNothing(s, tx) ==
    LET after == ProcessTx(s, tx).st
    IN  /\ after.signRequests = s.signRequests
        /\ after.inputRequestIds = s.inputRequestIds
        /\ after.votes = s.votes

Enabled(s) == s.sporkIS /\ s.fMasternodeMode /\ s.synced

C7_IdempotentIngest ==
    \A from \in NodeIds, l \in NetIslocks :
        \A once \in {ProcessInstantSendLock(St, from, SerializeHash(l), l)} :
            ProcessInstantSendLock(once, from, SerializeHash(l), l) = once

\* An islock was stored and relayed by a first call, and a second call is not
\* stopped by a ChainLock.
C7_Witness ==
    \E l \in NetIslocks :
        LET hash == SerializeHash(l)
        IN  /\ hash \in DOMAIN is_i
            /\ hash \in DOMAIN relayed /\ relayed[hash] = 1
            /\ ~IslockTxIsChainLocked(St, l)
            /\ ProcessInstantSendLock(St, 1, hash, l) = St

\* C8: lock before relay: an inventory is relayed only for an islock that was
\* written before, once for each write; a dropped islock is not relayed.
C8_LockBeforeRelay ==
    \A h \in DOMAIN relayed : h \in DOMAIN writes /\ relayed[h] <= writes[h]

\* Two islocks went through ProcessInstantSendLock: one was written and then
\* relayed, the other was dropped.
C8_Witness ==
    /\ pisl.pc = "idle"
    /\ nNetMsgs = 2
    /\ \E h \in DOMAIN writes :
           /\ DOMAIN writes = {h}
           /\ writes[h] = 1
           /\ h \in DOMAIN relayed /\ relayed[h] = 1

\* The signing engine has, for every input of tx, a recovered signature for
\* the request id of the input, bound to the txid.
EveryInputRecovered(tx) ==
    \A o \in SeqToSet(Vin[tx]) :
        /\ InputLockRequestId(o) \in DOMAIN recSigs
        /\ recSigs[InputLockRequestId(o)] = tx

\* C9: the islock of a transaction is being created, or its signature was
\* requested, only when every input request id of the transaction has a
\* recovered signature bound to its txid; with an input missing,
\* TrySignInstantSendLock makes no creating-lock entry and requests nothing.
C9_SignAfterAllInputs ==
    /\ \A id \in DOMAIN creatingInstantSendLocks :
           EveryInputRecovered(creatingInstantSendLocks[id].txid)
    /\ \A tx \in Txids :
           <<GetRequestId(NewIslock(tx)), tx>> \in signRequests =>
               EveryInputRecovered(tx)
    /\ \A tx \in Txids :
           ~EveryInputRecovered(tx) =>
               /\ TrySignInstantSendLock(St, tx).creatingInstantSendLocks
                      = creatingInstantSendLocks
               /\ TrySignInstantSendLock(St, tx).signRequests = signRequests

\* The islock of a transaction with two inputs is being created and its
\* signature was requested.
C9_Witness ==
    \E tx \in Txids :
        /\ Len(Vin[tx]) = 2
        /\ GetRequestId(NewIslock(tx)) \in DOMAIN creatingInstantSendLocks
        /\ <<GetRequestId(NewIslock(tx)), tx>> \in signRequests

\* C10: when NotifyChainLock(pindex) has returned and no ProcessInstantSendLock
\* is running, no islock is stored for a transaction mined at or below pindex.
C10_NoIslockBelowChainLock ==
    (pisl.pc = "idle" /\ ncl.pc = "idle" /\ ncl.returned /= NullIndex) =>
        \A h \in DOMAIN is_i :
            ~(IsMined(St, is_i[h].txid) /\ minedAt[is_i[h].txid] <= ncl.returned)

\* No lookup of state s finds something for the islock: not by hash, by
\* its txid or by one of its inputs; its txid is not locked and no request id
\* of its inputs is tracked.
GoneFromAllIndices(s, hash, islock) ==
    /\ GetInstantSendLockByHash(s, hash).ret = NullPtr
    /\ GetInstantSendLockByTxid(s, islock.txid).ret = NullPtr
    /\ \A o \in SeqToSet(islock.inputs) : GetInstantSendLockByInput(s, o).ret = NullPtr
    /\ ~IsLocked(s, islock.txid).ret
    /\ \A o \in SeqToSet(islock.inputs) : InputLockRequestId(o) \notin s.inputRequestIds

\* C11: the islock that NotifyChainLock finds for a transaction of a
\* ChainLocked block and removes is gone from all three indices: no lookup by
\* its hash, its txid or one of its inputs finds it, IsLocked of its txid is
\* false and the request ids of its inputs are not in inputRequestIds.
C11_RemovedFromAllIndices ==
    \A tx \in Txids :
        \A islock \in {GetInstantSendLockByTxid(St, tx)} :
            islock.ret /= NullPtr =>
                \A after \in {RemoveFinalISLock(islock.st, SerializeHash(islock.ret[1]),
                                                islock.ret)} :
                    GoneFromAllIndices(after, SerializeHash(islock.ret[1]), islock.ret[1])

\* NotifyChainLock has removed an islock whose inputs were tracked: it was
\* written, its transaction is in a ChainLocked block, and it is gone.
C11_Witness ==
    \E h \in DOMAIN writes :
        /\ h \notin DOMAIN is_i
        /\ clNotify = NullIndex
        /\ IsMined(St, IslockOfHash(h).txid)
        /\ minedAt[IslockOfHash(h).txid] <= bestChainLock
        /\ sporkIS
        /\ GoneFromAllIndices(St, h, IslockOfHash(h))

\* The conditions (a), (b) and (c) under which an outpoint can be locked, read
\* from the islock store, the mempool, the coins and the best ChainLock.
ParentIsLocked(o) == sporkIS /\ IsLocked(St, OutpointHash[o]).ret

CoinIsUnspent(o) ==
    /\ OutpointHash[o] \in Txids => minedAt[OutpointHash[o]] > 0
    /\ \A t \in Txids : minedAt[t] > 0 => o \notin SeqToSet(Vin[t])

CoinMinedAt(o) == IF OutpointHash[o] \in Txids THEN minedAt[OutpointHash[o]] ELSE 0

CanLockOutpoint(o) ==
    \/ ParentIsLocked(o)
    \/ /\ OutpointHash[o] \notin mempool
       /\ CoinIsUnspent(o)
       /\ \/ tipHeight - CoinMinedAt(o) + 1 >= nInstantSendConfirmationsRequired - 1
          \/ CoinMinedAt(o) <= bestChainLock

\* C12: CheckCanLock(outpoint) is true exactly when the parent transaction is
\* islocked, or the parent is not in the mempool, the coin exists unspent and
\* its age is at least nInstantSendConfirmationsRequired - 1 or its block has a
\* ChainLock; an unlocked parent in the mempool fails; CheckCanLock(tx) is
\* true only if CheckCanLock is true for every input of tx.
C12_CheckCanLock ==
    /\ \A o \in Outpoints :
           /\ CheckCanLockOutpoint(St, o).ret <=> CanLockOutpoint(o)
           /\ OutpointHash[o] \in mempool /\ ~ParentIsLocked(o)
                  => ~CheckCanLockOutpoint(St, o).ret
    /\ \A tx \in Txids :
           CheckCanLock(St, tx).ret
               => \A i \in DOMAIN Vin[tx] : CheckCanLockOutpoint(St, Vin[tx][i]).ret

\* Transaction 2 passed CheckCanLock on the age of its input with no ChainLock
\* at all and got islocked in the mempool, which makes its output lockable.
C12_Witness ==
    /\ bestChainLock = NullIndex
    /\ 2 \in mempool /\ ParentIsLocked(3)
    /\ <<InputLockRequestId(1), 2>> \in signRequests
    /\ tipHeight + 1 >= nInstantSendConfirmationsRequired - 1
    /\ CheckCanLockOutpoint(St, 3).ret

\* C13: the quarter read back from the snapshot of a block by
\* GetQuorumQuarterMembersBySnapshot is the quarter that BuildQuorumSnapshot
\* returned when it wrote that snapshot, whatever the mode.
C13_QuarterRoundTrip ==
    rot.pc = "read" =>
        /\ rot.rebuilt.thrown = "none"
        /\ rot.rebuilt.members = rot.quarterMembers

C15_SelectionDeterministic ==
    memb /= Idle =>
        \A r1 \in memb.returned :
            \A r2 \in memb.returned :
                r1[1] = r2[1] /\ r1[2] = r2[2] => r1[3] = r2[3]

\* The quorum of the first base block was returned, left the cache when the
\* insert of the last base block truncated it, and was computed and returned
\* again: it is the newest entry, in front of the survivors.
C15_Witness ==
    /\ memb /= Idle
    /\ memb.tip = MaxBlocks
    /\ memb.cache /= <<>>
    /\ [i \in DOMAIN memb.cache[LLMQ_TEST] |-> memb.cache[LLMQ_TEST][i][1]]
           = <<GetBlockHash(1), GetBlockHash(MaxBlocks), GetBlockHash(MaxBlocks - 1),
               GetBlockHash(MaxBlocks - 2), GetBlockHash(MaxBlocks - 3)>>
    /\ memb.callers[2] = [pc |-> "idle", llmqType |-> LLMQ_TEST, block |-> 1,
                           quorumMembers |-> ComputeQuorumMembers(LLMQ_TEST, 1)]
    /\ Len(ComputeQuorumMembers(LLMQ_TEST, 1)) = LlmqSize(LLMQ_TEST)
    /\ <<LLMQ_TEST_V17, 2, ComputeQuorumMembers(LLMQ_TEST_V17, 2)>> \in memb.returned
    /\ ComputeQuorumMembers(LLMQ_TEST_V17, 2) /= ComputeQuorumMembers(LLMQ_TEST, 2)

\* The hash of the canonical tuple of the pair {a, b} that ends in x.
TupleHash(a, b, x) == conn.h[<<IF a < b THEN a ELSE b, IF a < b THEN b ELSE a, x>>]

\* C16: DeterministicOutboundConnection(A, B) and
\* DeterministicOutboundConnection(B, A) return the same proTxHash for distinct
\* A and B, and it is A or B.
C16_OutboundSymmetry ==
    conn /= Idle /\ conn.last.fn = "DeterministicOutboundConnection" =>
        /\ conn.last.ret \subseteq {conn.last.args[1], conn.last.args[2]}
        /\ conn.prev.fn = "DeterministicOutboundConnection"
              /\ conn.prev.args = <<conn.last.args[2], conn.last.args[1]>>
                  => conn.last.ret = conn.prev.ret

\* The function was called as (1, 2), then as (2, 1), and chose 2, the
\* second argument of the first call and the first of the second.
C16_Witness ==
    /\ conn /= Idle
    /\ conn.prev.fn = "DeterministicOutboundConnection" /\ conn.prev.args = <<1, 2>>
    /\ conn.last.fn = "DeterministicOutboundConnection" /\ conn.last.args = <<2, 1>>
    /\ conn.last.ret = {2}
    /\ TupleHash(1, 2, 2) < TupleHash(1, 2, 1)

\* C17: in all-connected mode GetQuorumConnections(forMember = M, onlyOutbound
\* = true) contains the peer P exactly when the hash of the canonical tuple of
\* M is smaller than that of P.
C17_SmallerHashInitiates ==
    /\ conn /= Idle
    /\ conn.allConnected
    /\ conn.last.fn = "GetQuorumConnections"
    /\ conn.last.args[2]
    => \A p \in SeqToSet(conn.mns) \ {conn.last.args[1]} :
           p \in conn.last.ret
               <=> TupleHash(conn.last.args[1], p, conn.last.args[1])
                       < TupleHash(conn.last.args[1], p, p)

\* The pending islocks whose signature the batch verifier checks in the
\* current state.
PendingToVerify ==
    {h \in DOMAIN St.pendingInstantSendLocks :
        NeedsVerify(St, St.pendingInstantSendLocks[h].islock)}

\* C18: BuildSignHash is the hash of the four fields llmqType, quorumHash, id,
\* msgHash written in that order and of nothing else, and for each pending
\* islock the batch verifier is handed the islock's signature, the sign hash of
\* (InstantSend type, hash of the quorum selected for the islock's request id,
\* request id, islock.txid) and the public key of that same quorum.
C18_SignHashAndBatchMessage ==
    /\ \A t \in {LlmqForInstantSend, 2}, q \in {501, 502}, i \in {2001, 2002},
          m \in Txids :
          BuildSignHash(t, q, i, m) = [sha256d |-> << t, q, i, m >>]
    /\ \A h \in PendingToVerify :
          \A p \in {St.pendingInstantSendLocks[h]} :
          \A quorum \in {SelectQuorumForSigning(LlmqForInstantSend, St.tipHeight,
                                                GetRequestId(p.islock))} :
             PushMessage(St.tipHeight, p.from, h, p.islock) =
                 [sourceId |-> p.from, msgId |-> h,
                  msgHash |-> [sha256d |-> << LlmqForInstantSend, quorum.quorumHash,
                                              GetRequestId(p.islock), p.islock.txid >>],
                  sig |-> p.islock.sig,
                  pubKey |-> quorum.quorumPublicKey]

\* Two islocks, whose request ids select different quorums, wait for the
\* batch verifier.
C18_Witness ==
    \E h1, h2 \in PendingToVerify :
        SelectQuorumForSigning(LlmqForInstantSend, St.tipHeight,
                               GetRequestId(St.pendingInstantSendLocks[h1].islock))
        /= SelectQuorumForSigning(LlmqForInstantSend, St.tipHeight,
                                  GetRequestId(St.pendingInstantSendLocks[h2].islock))

LastCall == IF life.calls = <<>> THEN "none" ELSE life.calls[Len(life.calls)]

\* The components the last call acted on, in the order it acted on them.
TraceOrder == [i \in 1..Len(life.trace) |-> life.trace[i][2]]

StoppableStarted == LET Stoppable(c) == c \in HasStop IN SelectSeq(life.startOrder, Stoppable)

\* C19: after DestroyLLMQSystem every global component pointer is null and the
\* components it deleted were deleted in exactly the reverse of the order in
\* which InitLLMQSystem constructed them; StopLLMQSystem, called on started
\* components, unregisters the recovered-signature listener first and then
\* stops the workers, in the reverse of the order in which StartLLMQSystem
\* started them, and leaves none of them running.
C19_ReverseOrder ==
    /\ LastCall = "DestroyLLMQSystem" =>
          /\ \A c \in Components : ~life.ptr[c]
          /\ life.trace /= <<>> =>
                /\ TraceOrder = Reverse(life.constructed)
                /\ \A i \in 1..Len(life.trace) : life.trace[i][1] = "delete"
    /\ LastCall = "StopLLMQSystem" /\ life.startOrder /= <<>> =>
          /\ TraceOrder = Reverse(StoppableStarted)
          /\ life.trace[1] = <<"stop", "chainLocksHandler">>
          /\ life.running \cap HasStop = {}

\* The components were constructed, started, stopped and then destroyed.
C19_Witness ==
    /\ life.calls = <<"InitLLMQSystem", "StartLLMQSystem", "StopLLMQSystem",
                      "DestroyLLMQSystem">>
    /\ Len(life.trace) = 7
    /\ Len(life.constructed) = 7

\* The step is one turn of the loop of NotifyChainLock: the block at
\* ncl.pindex is read and scanned for islocks.
ScansBlock == ncl.pc = "walk" /\ ncl'.pc = "walk" /\ ncl'.pindex = PPrev(ncl.pindex)

\* C20: NotifyChainLock(pindex) walks from pindex back only until it reaches
\* the block recorded by the previous NotifyChainLock: once a call for the
\* block ncl.returned has returned, a later call scans no block at or below
\* ncl.returned.
C20_WalkStopsAtWatermark ==
    [][ScansBlock /\ ncl.returned /= NullIndex => ncl.pindex > ncl.returned]_vars

\* The last call was GetQuorumRelayMembers(forMember, onlyOutbound = true).
OutboundRelayCalled ==
    /\ conn.last.fn = "GetQuorumRelayMembers"
    /\ conn.last.args[2]

\* The members at the indices (i + g) mod n of the ring, i the index of member.
RingMembers(mns, member, gaps) ==
    {mns[((member - 1 + g) % Len(mns)) + 1] : g \in gaps}

RECURSIVE Log2Floor(_)
Log2Floor(x) == IF x <= 1 THEN 0 ELSE 1 + Log2Floor(x \div 2)

\* 2^k for k = 0 .. max(1, floor(log2(n - 1)) - 1)
DoublingGaps(n) ==
    {Pow2(k) : k \in 0..(IF Log2Floor(n - 1) - 1 > 1 THEN Log2Floor(n - 1) - 1 ELSE 1)}

C22_FreshQuarterFromRemaining ==
    rot.fn = "BuildNewQuorumQuarterMembers" =>
        /\ SeqToSet(rot.quarterMembers) \cap rot.mnUsedAtH = {}
        /\ Cardinality(SeqToSet(rot.quarterMembers)) = Len(rot.quarterMembers)

\* C23: a call of GetAllQuorumMembersByQuarterRotation that returns gives the
\* quarters of H-3C, H-2C, H-C and the fresh quarter concatenated in this
\* order, four quarters of size/4 members each, size members in all, also
\* when a snapshot of an earlier cycle is missing.
C23_FourQuartersOfSize ==
    rot.cycle > 0 /\ rot.last.thrown = "none" =>
        /\ rot.last.members = rot.last.quarters[1] \o rot.last.quarters[2]
                                  \o rot.last.quarters[3] \o rot.last.quarters[4]
        /\ \A k \in 1..4 : Len(rot.last.quarters[k]) = rot.llmqSize \div 4
        /\ Len(rot.last.members) = rot.llmqSize

\* The mode for nUsed used masternodes among n: 0 for none, 1 for fewer than
\* half, 2 otherwise.
ModeByUse(nUsed, n) == IF nUsed = 0 THEN 0 ELSE IF 2 * nUsed < n THEN 1 ELSE 2

\* C24: BuildQuorumSnapshot (through BuildQuorumSnapshotSkipList) returns and
\* records mode 3 with an empty quarter, or else the mode 0, 1 or 2 that the
\* number of used masternodes of the combined list gives, with a quarter of
\* exactly size/4 masternodes of the list.
C24_SkipListModes ==
    rot.fn = "BuildQuorumSnapshot" =>
        /\ rot.pc \in {"stored", "read"}
        /\ rot.quorumSnapshot.mnSkipListMode = 3 <=> rot.quarterMembers = <<>>
        /\ rot.quorumSnapshot.mnSkipListMode /= 3 =>
              /\ rot.quorumSnapshot.mnSkipListMode
                    = ModeByUse(Cardinality(rot.mnUsedAtH), Cardinality(rot.Mns))
              /\ Len(rot.quarterMembers) = rot.llmqSize \div 4
              /\ SeqToSet(rot.quarterMembers) \subseteq rot.Mns

\* The commitment hash does not change with quorumIndex when the version is
\* not the indexed one.
IndexIgnoredWhenNotIndexed ==
    ser.nVersion /= QUORUM_INDEXED_VERSION =>
        \A q \in QuorumIndexes :
            BuildCommitmentHash(ser.llmqType, ser.blockHash, ser.validMembers, ser.pubKey,
                                ser.vvecHash, ser.nVersion, q) = ser.hash

\* C25 as stated: the commitment hash is the hash of llmqType, quorumHash,
\* validMembers, quorumPublicKey, verificationVectorHash in this order, with
\* quorumIndex appended last for the indexed version only; for the other
\* version it does not depend on quorumIndex.
C25_IndexAppendedLast ==
    ser.pc = "hashed" =>
        /\ ser.hash = [sha256d |->
              << ser.llmqType, ser.blockHash >> \o WriteDynBitSet(ser.validMembers)
                  \o << ser.pubKey, ser.vvecHash >>
                  \o (IF ser.nVersion = QUORUM_INDEXED_VERSION
                      THEN LittleEndian(ser.quorumIndex, 4) ELSE <<>>)]
        /\ IndexIgnoredWhenNotIndexed

\* C25 as the code has it: for the indexed version quorumIndex is written
\* third, between quorumHash and validMembers; the other fields are in the
\* stated order, and for the other version quorumIndex is not written.
C25_CommitmentHash ==
    ser.pc = "hashed" =>
        /\ ser.hash = [sha256d |->
              << ser.llmqType, ser.blockHash >>
                  \o (IF ser.nVersion = QUORUM_INDEXED_VERSION
                      THEN LittleEndian(ser.quorumIndex, 4) ELSE <<>>)
                  \o WriteDynBitSet(ser.validMembers)
                  \o << ser.pubKey, ser.vvecHash >>]
        /\ IndexIgnoredWhenNotIndexed

\* The hash of an indexed commitment with members and a quorumIndex of two
\* non-zero bytes was computed.
C25_Witness ==
    /\ ser.pc = "hashed"
    /\ ser.nVersion = QUORUM_INDEXED_VERSION
    /\ ser.quorumIndex = 258
    /\ ser.validMembers = <<TRUE, FALSE>>
    /\ ser.hash /= GetHash(<<>>)

\* The step is a batch run of ProcessPendingInstantSendLocks on a pending set
\* that is not empty.
BatchRuns ==
    /\ pendingInstantSendLocks /= EmptyMap
    /\ hasScheduledProcessPending /\ ~hasScheduledProcessPending'
    /\ pendingInstantSendLocks' = EmptyMap

\* The batch run rejected the pending islock p for its signature: the
\* signature was checked, is invalid, and the peer was scored.
RejectedInBatch(p) ==
    /\ NeedsVerify(St, p.islock)
    /\ ~VerifiesInBatch(tipHeight, p.islock)
    /\ misbehaving'[p.from] = misbehaving[p.from] + 20

\* The batch run passed the pending islock p, of hash h, to
\* ProcessInstantSendLock: its signature is good or was not checked, and the
\* state after the run is one that ProcessInstantSendLock(p) leaves as it is.
ProcessedInBatch(h, p) ==
    /\ ~NeedsVerify(St, p.islock) \/ VerifiesInBatch(tipHeight, p.islock)
    /\ \A after \in {St'} : ProcessInstantSendLock(after, p.from, h, p.islock) = after

\* C26: whenever islocks are pending a batch run is scheduled, and the batch
\* run passes each pending islock to ProcessInstantSendLock or rejects it for
\* an invalid signature: no pending islock leaves the pending set without one
\* of these two outcomes.
C26_PendingIsHandled ==
    /\ [](pendingInstantSendLocks /= EmptyMap => hasScheduledProcessPending)
    /\ [][BatchRuns =>
             \A h \in DOMAIN pendingInstantSendLocks :
                 \/ RejectedInBatch(pendingInstantSendLocks[h])
                 \/ ProcessedInBatch(h, pendingInstantSendLocks[h])]_vars

\* The islock is in the database or in the pending set.
StoredOrPending(islock) ==
    \/ GetInstantSendLockByHash(St, SerializeHash(islock)).ret /= NullPtr
    \/ SerializeHash(islock) \in DOMAIN pendingInstantSendLocks

\* C27: with InstantSend enabled, an ISLOCK message whose islock has a null
\* txid, a signature that does not decode, no input or a duplicated input
\* scores its sender 100 and leaves the pending set and the scheduling flag as
\* they are; an ISLOCK message whose islock is well formed and already stored
\* or already pending leaves the pending set, the flag and the scores as they
\* are.
C27_PreVerifyRejects ==
    [][\A from \in NodeIds, islock \in WireIslocks :
           sporkIS /\ ReceiveISLock(from, islock) =>
               /\ islock \in MalformedIslocks =>
                      /\ ~PreVerifyInstantSendLock(islock)
                      /\ misbehaving' = [misbehaving EXCEPT ![from] = @ + 100]
                      /\ pendingInstantSendLocks' = pendingInstantSendLocks
                      /\ hasScheduledProcessPending' = hasScheduledProcessPending
               /\ islock \notin MalformedIslocks /\ StoredOrPending(islock) =>
                      /\ pendingInstantSendLocks' = pendingInstantSendLocks
                      /\ hasScheduledProcessPending' = hasScheduledProcessPending
                      /\ misbehaving' = misbehaving]_vars

\* The first message of a peer was a malformed islock: the peer stands at 100
\* and nothing is pending or scheduled.
C27_Witness ==
    /\ sporkIS /\ nNetMsgs = 1
    /\ misbehaving[1] = 100
    /\ pendingInstantSendLocks = EmptyMap /\ ~hasScheduledProcessPending

\* The pending islocks whose signature fails the batch verification of a run
\* that starts in this state.
BadMessages ==
    {h \in DOMAIN pendingInstantSendLocks :
        /\ NeedsVerify(St, pendingInstantSendLocks[h].islock)
        /\ ~VerifiesInBatch(tipHeight, pendingInstantSendLocks[h].islock)}

BadSources == {pendingInstantSendLocks[h].from : h \in BadMessages}

\* The state before the run with the bad islocks taken out of the pending set.
WithoutBadMessages ==
    [St EXCEPT !.pendingInstantSendLocks =
                   [h \in DOMAIN pendingInstantSendLocks \ BadMessages |->
                        pendingInstantSendLocks[h]]]

Restrict(order, S) == SelectSeq(order, LAMBDA h : h \in S)

Parents(t) == {OutpointHash[Vin[t][i]] : i \in DOMAIN Vin[t]} \cap Txids

\* t and the transactions it descends from.
RECURSIVE Lineage(_)
Lineage(t) == {t} \cup UNION {Lineage(p) : p \in Parents(t)}

\* t is not the transaction of the islock and spends one of its inputs.
ConflictsWithLock(islock, t) ==
    /\ t /= islock.txid
    /\ SeqToSet(Vin[t]) \cap SeqToSet(islock.inputs) /= {}

\* The islocks that the step writes to the database.
NewlyStored == {h \in DOMAIN is_i' : h \notin DOMAIN is_i}

IslockSigArrives(id, msgHash) ==
    /\ sporkIS
    /\ id \in DOMAIN creatingInstantSendLocks
    /\ RecoveredSig(id, msgHash, FALSE)

\* The islock the node is creating under id, carrying the recovered signature.
SignedCreating(id) == [creatingInstantSendLocks[id] EXCEPT !.sig = "rec"]

\* What C30 states of the step that delivers (id, msgHash), where stored
\* tells whether the islock created under id is to be in the database.
OwnIslockOutcome(id, stored) ==
    /\ id \notin DOMAIN creatingInstantSendLocks'
    /\ creatingInstantSendLocks[id].txid \notin DOMAIN txToCreatingInstantSendLocks'
    /\ IF stored
       THEN /\ SerializeHash(SignedCreating(id)) \in DOMAIN is_i'
            /\ is_i'[SerializeHash(SignedCreating(id))] = SignedCreating(id)
       ELSE is_i' = is_i

IslockMsgHashes == SpendTxids \cup {Twin(t) : t \in SpendTxids}

\* C30 as stated: when the recovered signature of an islock request id
\* arrives, the islock being created under that id is in the database
\* afterwards, with the recovered signature as its sig, exactly when the
\* signature's msgHash is the txid of that islock; otherwise the database is
\* as before.  Either way the creating entry of the id and the entry of the
\* txid are gone.
C30_OwnIslockStored ==
    [][\A id \in DOMAIN creatingInstantSendLocks, msgHash \in IslockMsgHashes :
           IslockSigArrives(id, msgHash) =>
               OwnIslockOutcome(id, msgHash = creatingInstantSendLocks[id].txid)]_vars

\* C30, amended: the islock is stored exactly when msgHash is its txid and
\* its transaction is not mined in a ChainLocked block; the two entries are
\* removed in every case.
C30_OwnIslockStoredUnlessChainLocked ==
    [][\A id \in DOMAIN creatingInstantSendLocks, msgHash \in IslockMsgHashes :
           IslockSigArrives(id, msgHash) =>
               OwnIslockOutcome(id,
                   /\ msgHash = creatingInstantSendLocks[id].txid
                   /\ ~IslockTxIsChainLocked(St, SignedCreating(id)))]_vars

\* The quorum signed the islock of a transaction t, and the islock that the
\* node assembled for t is stored with the recovered signature; no peer has
\* sent an islock.
C30_Witness ==
    \E t \in SpendTxids :
        /\ HasRecoveredSig(St, GetRequestId(NewIslock(t)), t)
        /\ SerializeHash([NewIslock(t) EXCEPT !.sig = "rec"]) \in DOMAIN is_i
        /\ t \notin DOMAIN txToCreatingInstantSendLocks
        /\ nNetMsgs > 0 /\ misbehaving = [n \in NodeIds |-> 0]

\* C31: the calls of CalcDeterministicWatchConnections that were given the
\* same arguments returned the same set, every returned index is below
\* memberCount, and the seed, once its flag is set and no thread holds the
\* lock, is never written again.
C31_WatchDeterministic ==
    conn.pc = "watch" =>
        /\ \A r1, r2 \in conn.returned : r1[1] = r2[1] => r1[2] = r2[2]
        /\ \A r \in conn.returned : \A idx \in r[2] : idx < r[1].memberCount
        /\ \A t \in WatchThreads :
               conn.qwatchConnectionSeedGenerated =>
                   conn.th[t].pc \notin {"seedHigh", "seedLow"}

\* The three lookups agree on the islock stored under hash h.
IndicesAgreeOn(h) ==
    /\ GetInstantSendLockByTxid(St, is_i[h].txid).ret = <<is_i[h]>>
    /\ \A o \in SeqToSet(is_i[h].inputs) :
           GetInstantSendLockByInput(St, o).ret = <<is_i[h]>>

\* Every entry of the txid index and of the input index names a stored islock.
NoDanglingIndexEntry ==
    /\ \A txid \in DOMAIN is_tx : is_tx[txid] \in DOMAIN is_i
    /\ \A o \in DOMAIN is_in : is_in[o] \in DOMAIN is_i

\* The step removes islocks, and the islock h2 that stays keeps its entries.
KeepsEntriesOf(h2) ==
    /\ is_i[h2].txid \in DOMAIN is_tx /\ is_tx[is_i[h2].txid] = h2
           => is_i[h2].txid \in DOMAIN is_tx' /\ is_tx'[is_i[h2].txid] = h2
    /\ \A o \in SeqToSet(is_i[h2].inputs) :
           o \in DOMAIN is_in /\ is_in[o] = h2 => o \in DOMAIN is_in' /\ is_in'[o] = h2

\* C32: index agreement: every islock that is stored by its hash is what the
\* lookup by its txid and the lookup by each of its inputs return, every
\* entry of the txid and input indices names a stored islock, and a step
\* that removes an islock leaves the index entries of every other stored
\* islock in place.
C32_IndexAgreement ==
    /\ [](\A h \in DOMAIN is_i : IndicesAgreeOn(h))
    /\ []NoDanglingIndexEntry
    /\ [][\A h2 \in DOMAIN is_i :
             h2 \in DOMAIN is_i' /\ DOMAIN is_i' /= DOMAIN is_i /\ DOMAIN is_i' \subseteq DOMAIN is_i
                 => KeepsEntriesOf(h2)]_vars

\* Thread t is inside an operation on inputRequestIds.
InsideSetOp(t) == LockOp(conn, t) \in SetOperations /\ conn.th[t].inside

\* C33: a thread that is inside a read or a write of inputRequestIds holds
\* cs, so no two threads are inside an operation on the set at once.
C33_IdsUnderLock ==
    conn.pc = "locks" =>
        /\ \A t \in LockThreads : InsideSetOp(t) => conn.cs = t
        /\ \A t1, t2 \in LockThreads : InsideSetOp(t1) /\ InsideSetOp(t2) => t1 = t2

\* C34: every entry of txToCreatingInstantSendLocks names an islock that is
\* in creatingInstantSendLocks, and the txid of that islock is the key of
\* the entry.
C34_CreatingEntriesAgree ==
    \A txid \in DOMAIN txToCreatingInstantSendLocks :
        /\ txToCreatingInstantSendLocks[txid] \in DOMAIN creatingInstantSendLocks
        /\ creatingInstantSendLocks[txToCreatingInstantSendLocks[txid]].txid = txid

\* C35: every call of GetQuorumRelayMembers returns: the gap loop of
\* calcOutbound ends for every length of the member list and every member,
\* also for the lists of one and of two members.
C35_RelayTerminates ==
    conn.last.fn = "GetQuorumRelayMembers" => ~conn.last.hangs

\* C36: no call of GetAllQuorumMembersByQuarterRotation ends in a failed
\* assertion, a failed bounds check or a read outside a vector: whatever the
\* number of mined commitments, the masternode list and the stored
\* snapshots, the three prior commitments are there and no quarter is empty.
C36_NoAssertFails ==
    rot.pc = "cycles" => rot.last.thrown = "none"

\* C37: in all-connected mode, of two distinct members A and B of the quorum
\* exactly one dials the other: B is in GetQuorumConnections(A, onlyOutbound =
\* true) exactly when A is not in GetQuorumConnections(B, onlyOutbound = true);
\* with onlyOutbound = false the set of a member is all the other members.
C37_OneInitiatorPerPair ==
    /\ conn /= Idle
    /\ conn.allConnected
    /\ conn.last.fn = "GetQuorumConnections"
    => /\ ~conn.last.hangs
       /\ ~conn.last.args[2] =>
              conn.last.ret = SeqToSet(conn.mns) \ {conn.last.args[1]}
       /\ /\ conn.last.args[2]
          /\ conn.prev.fn = "GetQuorumConnections"
          /\ conn.prev.args[2]
          /\ conn.prev.args[1] /= conn.last.args[1]
          => (conn.prev.args[1] \in conn.last.ret
                 <=> conn.last.args[1] \notin conn.prev.ret)

\* In a quorum of three, member 1 was asked for its outbound set, then member
\* 3: member 1 dials 3 (and not 2), and 3 does not dial 1.
C37_Witness ==
    /\ conn /= Idle
    /\ conn.allConnected
    /\ Len(conn.mns) = 3
    /\ conn.prev.fn = "GetQuorumConnections" /\ conn.prev.args = <<1, TRUE>>
    /\ conn.last.fn = "GetQuorumConnections" /\ conn.last.args = <<3, TRUE>>
    /\ conn.prev.ret = {3}
    /\ 1 \notin conn.last.ret

\* C38: Unserialize into a fresh CQuorumRotationInfo, applied to the bytes
\* that Serialize wrote for a value, does not throw and yields equal fields,
\* also with extraShare set and the H-4C snapshot and list diff present; and
\* a copy made with the copy constructor has the fields of its source.
C38_RotationInfoRoundTrip ==
    /\ ser.pc \in {"info read", "info copied"} =>
           ~ser.read.thrown /\ ser.read.obj = ser.info
    /\ ser.pc = "info copied" => ser.copy = ser.info

\* The positions of the MNHF signals in the block that ProcessBlock was last
\* called on, the coinbase skipped.
SignalPositions ==
    {i \in 2..Len(memb.last.vtx) :
        /\ memb.last.vtx[i].nVersion = 3
        /\ memb.last.vtx[i].nType = TRANSACTION_MNHF_SIGNAL
        /\ memb.last.vtx[i].parses}

\* The signal set that the block inherits from the block before it.
InheritedSignals ==
    IF memb.last.nHeight = 1 THEN {}
    ELSE {s \in memb.evoDb[MnhfBlockHash(memb.last.nHeight - 1,
                                         memb.chain[memb.last.nHeight - 1])] :
             StageKeeps(s)}

\* The call left the cache and the database without a new or changed signal
\* set for the block it was called on.
NothingStoredForBlock ==
    \A k \in 1..2 :
        \A after \in {IF k = 1 THEN memb.mnhfCache ELSE memb.evoDb} :
            \A hash \in {MnhfBlockHash(memb.last.nHeight, memb.last.vtx)} :
                /\ hash \in DOMAIN after <=> hash \in DOMAIN memb.last.before[k]
                /\ hash \in DOMAIN after => after[hash] = memb.last.before[k][hash]

DuplicateSignals ==
    \/ \E i \in SignalPositions : \E j \in SignalPositions :
           i /= j /\ memb.last.vtx[i].versionBit = memb.last.vtx[j].versionBit
    \/ \E i \in SignalPositions : \E s \in InheritedSignals :
           s[1] = memb.last.vtx[i].versionBit

OneHeightPerBit(signals) ==
    \A s1 \in signals : \A s2 \in signals : s1[1] = s2[1] => s1 = s2

\* C39: ProcessBlock returns false with an invalid state, and stores no
\* signal set for the block in the cache or the database, when the block has
\* two MNHF signals for one version bit or a signal for a bit of the set
\* inherited from the previous block; with fJustCheck it stores no signal set
\* for the block; every stored signal set has one mined height per bit.
C39_DuplicateSignalRejected ==
    memb.pc = "mnhf" =>
        /\ memb.last.fn = "ProcessBlock" /\ DuplicateSignals =>
               /\ ~memb.last.fault /\ ~memb.last.ret /\ memb.last.reason /= ""
               /\ NothingStoredForBlock
        /\ memb.last.fn = "ProcessBlock" /\ memb.last.fJustCheck => NothingStoredForBlock
        /\ \A hash \in DOMAIN memb.mnhfCache : OneHeightPerBit(memb.mnhfCache[hash])
        /\ \A hash \in DOMAIN memb.evoDb : OneHeightPerBit(memb.evoDb[hash])

\* C40: CheckMNHFTx ends with an invalid validation state, and not in a
\* failed dereference, for every payload whose quorumHash names a block of
\* the active chain for which no quorum of the MNHF type is held.
C40_NoQuorumIsInvalid ==
    /\ memb.pc = "mnhf"
    /\ memb.last.fn = "CheckMNHFTx"
    /\ memb.last.vtx[1].quorumHash \in DOMAIN MnhfBlockIndex
    /\ MnhfBlockIndex[memb.last.vtx[1].quorumHash].active
    /\ ~MnhfBlockIndex[memb.last.vtx[1].quorumHash].quorum
    => ~memb.last.fault /\ ~memb.last.ret /\ memb.last.reason /= ""


============================================================================
